---- MODULE Spec2Model ----
(***************************************************************************)
(* Model of the poisecast streaming denoise pipeline:                      *)
(*   - FloatRingBuffer            (audio/worklet/denoise-processor.ts)     *)
(*   - DenoiseProcessor           (audio/worklet/denoise-processor.ts)     *)
(*   - the inference worker       (audio/worker/denoise.worker.ts)         *)
(*   - DenoiseEngine's routing    (audio/engine, message listeners)        *)
(*                                                                         *)
(* Samples are Float32 in the code.  The model writes a sample s as the    *)
(* integer 2*s, so that the downmix 0.5*(l+r) of two full-scale samples    *)
(* stays an integer and the worker's clamp to [-1, 1] is a clamp to        *)
(* [-FullScale, FullScale].                                                *)
(***************************************************************************)
EXTENDS Integers, Sequences, FiniteSets, TLC

VARIABLES
    \* ---- FloatRingBuffer exercised on its own (SpecRing) ----
    ring,        \* the buffer under test: [buf, r, w, len]
    ringFifo,    \* history: samples pushed and not yet removed, oldest first,
                 \*          under the documented drop-oldest policy
    ringHist,    \* history: samples pushed since the last read/consume/clear
    ringOut,     \* the array filled by the last read()
    ringOp,      \* history: the last call made
    \* ---- DenoiseProcessor (audio worklet) ----
    frameSize,   \* processorOptions.frameSize = ready.frameSize = ioSpec.frameSize
    enabled,
    warmupMs,
    warmupSamplesRemaining,
    inRing,
    outRing,
    nextId,
    inFlight,
    outL,        \* outputs[0][0] as left by the last process() callback
    outR,        \* outputs[0][1] as left by the last process() callback
    \* ---- message ports (FIFO each) ----
    workletOut,  \* worklet port -> main thread: frame messages
    workerIn,    \* main thread -> worker: process messages
    workerOut,   \* worker -> main thread: result / error replies
    workletIn,   \* main thread -> worklet port: setEnabled / setWarmupMs / result
    \* ---- inference worker ----
    runs,        \* processFrame invocations suspended at `await session.run`
    \* ---- DenoiseEngine (main thread) ----
    status,      \* _status.state
    worker,      \* this.worker: "null" or "worker"
    ctx,         \* this.ctx: "null", or the state of the AudioContext it
                 \* refers to ("suspended", "running", "closed")
    source,      \* this.source: "null" or "node"
    worklet,     \* this.worklet: "null" or "node"
    initPc,      \* where the init() call stands: "none", "awaitReady",
                 \* "awaitModule", "done" (returned) or "failed" (threw)
    attachPending,  \* attach() calls suspended at `await this.ctx.resume()`
    disposePending, \* dispose() calls suspended at `await this.ctx.close()`
    calls,       \* history: how many init / attach / dispose calls were made
    tap,         \* history: source nodes created and graph connections made
                 \* since the last dispose()
    attachLog,   \* history: how the last attach() call ended, whether one
                 \* failed its precondition and how many succeeded
    liveWorkers, \* history: the workers this engine created with new Worker()
                 \* and has not terminated
    \* ---- history variables (not program state) ----
    call,        \* the arguments of the last process() callback
    outstanding, \* ids of the frames posted by the worklet whose result the
                 \* worklet has not handled yet
    staleOut,    \* the outstanding ids that were outstanding when the worklet
                 \* handled a setEnabled(false)
    outHist,     \* the samples pushed to outRing and not yet emitted, dropped
                 \* or cleared, oldest first: [v |-> the sample, stale |->
                 \* whether its frame was in staleOut when its result arrived]
    emitted,     \* the entries of outHist emitted by the last process()
    warm,        \* since the last setEnabled(true): samples armed, samples
                 \* silenced by warmup, and whether a ring sample was emitted
    posted,      \* the process messages handed to worker.postMessage so far
    \* ---- pickIoSpec exercised on its own (SpecIo) ----
    sess,        \* the session whose metadata is read
    ioSpec,      \* the IoSpec returned, NoIoSpec before the call
    \* ---- inference worker: init() ----
    wk,          \* [pc, todo, errs, session, asked, tried]: where init()
                 \* stands, the tryProviders not yet attempted, the failures
                 \* collected, the backend of the session created ("null" for
                 \* none) and, as history, the preferredBackends received and
                 \* the backends attempted in order
    creatable,   \* the backends on which InferenceSession.create succeeds
    \* ---- history of one enabled session (SpecEcho) ----
    fed,         \* the mono samples buffered by process() so far
    heard,       \* the output samples, from the first callback that emitted
                 \* ring samples on
    \* ---- inference worker: the recurrent model state ----
    state,       \* the worker's `state`: NoState (null) for a model run
                 \* stateless, else the state vector
    stateFed,    \* history: frame id -> the state vector its run read
    stateRet,    \* history: frame id -> the state vector its run returned
                 \* and the worker stored
    firstIds,    \* history: for every disabled -> enabled transition of the
                 \* processor, the id of the first frame posted after it
    \* ---- stream proxy (api/stream.ts, vite.config.ts) ----
    now,         \* Date.now(), in ticks of TickMs milliseconds
    policy,      \* [allow, block]: ALLOWLIST and BLOCKLIST
    rateState,   \* RATE_STATE: the entries [ip, windowStart, requestCount,
                 \* inFlight, blockedUntil, lastSeen] in insertion order
    reqs,        \* the requests in progress: id -> [ip, method, pc, current,
                 \* i, fetches, client]; pc is "fetching" (inside
                 \* fetchWithSafeRedirects, awaiting fetch(current)) or
                 \* "streaming" (the upstream body is being piped)
    nextReq,     \* history: the number the next request gets
    answer,      \* history: the last response head the proxy sent: the
                 \* final upstream status behind it (0 for none), the
                 \* status sent to the client and its retry-after header
    admits,      \* history: ip -> the times at which the rate gate admitted
                 \* a request of that ip
    overrun      \* history: ip -> the time up to which the last overrun of
                 \* the request cap by that ip blocks it (0 for none)

ringVars == <<ring, ringFifo, ringHist, ringOut, ringOp>>

procVars == <<frameSize, enabled, warmupMs, warmupSamplesRemaining, inRing, outRing,
              nextId, inFlight, outL, outR>>

portVars == <<workletOut, workerIn, workerOut, workletIn>>

histVars == <<call, outstanding, staleOut, outHist, emitted, warm>>

\* the state of the parts added around the pipeline
workerInitVars == <<wk, creatable>>

engVars == <<worker, ctx, source, worklet, initPc, attachPending, disposePending>>

lifeVars == <<engVars, calls, tap, attachLog, liveWorkers>>

sideVars == <<posted, sess, ioSpec, workerInitVars, lifeVars>>

echoVars == <<fed, heard>>

modelVars == <<state, stateFed, stateRet>>

proxyVars == <<now, policy, rateState, reqs, nextReq, answer, admits, overrun>>

restVars == <<echoVars, modelVars, firstIds, proxyVars>>

extVars == <<sideVars, restVars>>

pipeVars == <<procVars, portVars, runs, status, histVars, extVars>>

vars == <<ringVars, pipeVars>>

-----------------------------------------------------------------------------
(* Bounds *)

\* capacity of the buffer exercised by SpecRing (a constructor argument)
RingCap == 2
\* longest array handed to push() in SpecRing, beyond the capacity
PushOver == 1
\* largest array handed to read() / count handed to consume() in SpecRing
MaxReadLen == 3

\* sample values pushed in SpecRing (non-zero, so that zero-fill is visible)
RingSamples == {1, 2}

\* the negotiated frame size (480 for the shipped model), scaled down: in Spec
FrameSize == 2
\* and in SpecFlow
FlowFrameSize == 1
\* processorOptions.maxInFlight (the engine passes 4), scaled down
MaxInFlight == 2
\* capacity of inRing and outRing (48000 in the code), scaled down
ProcRingCap == 2
\* largest render block handed to process() (128 in browsers)
MaxBlock == 2
\* the `sampleRate` global of the AudioWorkletGlobalScope, in Hz
SampleRate == 4
\* frames submitted in one run of Spec (nextId is unbounded in the code)
MaxFrames == 1
\* frames submitted in one run of SpecFlow
FlowMaxFrames == 3
\* setEnabled / setWarmupMs messages waiting in the worklet's port
MaxCtl == 1
\* process messages posted to the worker in one run of SpecWorker
WorkerMaxFrames == 2
\* init(), attach() and dispose() calls made in one run of SpecLife
MaxInits == 2
MaxAttach == 2
MaxDispose == 2
\* SpecEcho: the frame size (480), the render block (128), the capacity of
\* the two rings (48000) and the samples fed in one run
\* the stream proxy: requests made in a run, requests in progress at once,
\* the last tick of the clock
MaxReqs == 4
MaxActive == 2
MaxTime == 4

\* requests made in a run of SpecProxy
ProxyMaxReqs == 2

\* requests made in a run of SpecBlock
BlockMaxReqs == 5

\* the limiter's settings, in ticks and requests (RATE_WINDOW_MS,
\* RATE_MAX_REQUESTS, RATE_MAX_INFLIGHT, RATE_BLOCK_MS, RATE_STATE_MAX_ENTRIES)
RateWindow == 2
RateMaxRequests == 2
RateMaxInflight == 1
RateBlock == 1
RateStateMaxEntries == 1

\* frames posted in a run of SpecLock
LockMaxFrames == 3

\* frames posted in a run of SpecMemory, and the length of the state vector
MemoryMaxFrames == 2
StateSize == 1

EchoFrameSize == 5
EchoBlock == 3
EchoRingCap == 8
EchoMaxSamples == 12

\* this.warmupMs = 250
DefaultWarmupMs == 250
\* the frame and state sizes of the shipped time-domain model, which are
\* also pickIoSpec's fallback values
ModelFrameSize == 480
ModelStateSize == 45304
\* warmup durations the page may set (ms); -50 exercises the clamp to 0
WarmupChoices == {-50, 250}

\* the 300_000 ms below which cleanupRateState keeps an idle entry, in ticks
\* (a tick stands for 150 s)
StaleFloor == 2

\* fetchWithSafeRedirects(initialUrl, init, maxRedirects = 5)
MaxRedirects == 5

\* the client addresses getClientIp() tells apart
ClientIps == {"a", "b"}

\* 1.0 as a model sample
FullScale == 2
\* input sample values (1.0; a silent channel comes from stereo blocks)
InSamples == {FullScale}
\* sample values of the frames posted to the worker in SpecWorker (0.5, 1.0)
WorkerSamples == {1, FullScale}

-----------------------------------------------------------------------------
(* Helpers *)

Min(a, b) == IF a < b THEN a ELSE b

Max(a, b) == IF a > b THEN a ELSE b

\* new Float32Array(n): n zeros
Zeros(n) == [i \in 1..n |-> 0]

\* the first n elements of s
Take(s, n) == SubSeq(s, 1, Min(n, Len(s)))

\* s without its first n elements
Drop(s, n) == SubSeq(s, Min(n, Len(s)) + 1, Len(s))

\* the last n elements of s
LastN(s, n) == SubSeq(s, Max(1, Len(s) - n + 1), Len(s))

\* all sequences over S of length lo..hi
SeqsOf(S, lo, hi) == UNION {[1..n -> S] : n \in lo..hi}

-----------------------------------------------------------------------------
(* FloatRingBuffer.  buf is the Float32Array (index i of the code is       *)
(* buf[i + 1] here); r, w, len are the private fields.                     *)

FloatRingBuffer(capacity) ==
    [buf |-> Zeros(capacity), r |-> 0, w |-> 0, len |-> 0]

size(rb) == rb.len

\* clear() rewinding the two indices only
clearIndicesOnly(rb) == [rb EXCEPT !.r = 0, !.w = 0]

clear(rb) == [rb EXCEPT !.r = 0, !.w = 0, !.len = 0]

consume(rb, n) ==
    LET k == Min(n, rb.len)
    IN  [rb EXCEPT !.r = (rb.r + k) % Len(rb.buf), !.len = rb.len - k]

\* the write loop of push(): buf[w] = src[i]; w = (w + 1) % buf.length
RECURSIVE writeLoop(_, _)
writeLoop(rb, src) ==
    IF src = <<>> THEN rb
    ELSE writeLoop([rb EXCEPT !.buf[rb.w + 1] = Head(src),
                              !.w = (rb.w + 1) % Len(rb.buf)],
                   Tail(src))

push(rb, src) ==
    LET room == Len(rb.buf) - rb.len
        rb1  == IF Len(src) > room THEN consume(rb, Len(src) - room) ELSE rb
        rb2  == writeLoop(rb1, src)
    IN  [rb2 EXCEPT !.len = rb1.len + Len(src)]

\* read(out) with out.length = n: the ring afterwards and the filled array
read(rb, n) ==
    LET k == Min(n, rb.len)
    IN  [rb  |-> [rb EXCEPT !.r = (rb.r + k) % Len(rb.buf), !.len = rb.len - k],
         out |-> [i \in 1..n |->
                    IF i <= k THEN rb.buf[((rb.r + i - 1) % Len(rb.buf)) + 1]
                    ELSE 0]]

-----------------------------------------------------------------------------
(* SpecRing: every sequence of push / read / consume / clear calls on one  *)
(* FloatRingBuffer of capacity RingCap.                                    *)

PipeBare(fs, capacity) ==
    /\ frameSize = fs
    /\ enabled = FALSE
    /\ warmupMs = DefaultWarmupMs
    /\ warmupSamplesRemaining = 0
    /\ inRing = FloatRingBuffer(capacity)
    /\ outRing = FloatRingBuffer(capacity)
    /\ nextId = 1
    /\ inFlight = 0
    /\ outL = <<>>
    /\ outR = <<>>
    /\ workletOut = <<>>
    /\ workerIn = <<>>
    /\ workerOut = <<>>
    /\ workletIn = <<>>
    /\ runs = {}
    /\ call = [n |-> 0, ch |-> 0, l |-> <<>>, r |-> <<>>]
    /\ outstanding = {}
    /\ staleOut = {}
    /\ outHist = <<>>
    /\ emitted = <<>>
    /\ warm = [armed |-> 0, silenced |-> 0, emitted |-> FALSE]
    /\ posted = {}
    /\ fed = <<>>
    /\ heard = <<>>
    /\ stateFed = <<>>
    /\ stateRet = <<>>
    /\ firstIds = {}

\* no allow-list and no block-list configured
NoPolicy == [allow |-> {}, block |-> {}]

\* no request answered yet; an answer is the upstream status relayed (0 for
\* none), the status sent to the client and the retry-after header in
\* seconds (0 for none)
NoAnswer == [upstream |-> 0, client |-> 0, retry |-> 0]

\* the proxy module once loaded, with the host lists pol
ProxyStart(pol) ==
    /\ now = 0
    /\ policy = pol
    /\ rateState = <<>>
    /\ reqs = <<>>
    /\ nextReq = 1
    /\ answer = NoAnswer
    /\ admits = [ip \in ClientIps |-> <<>>]
    /\ overrun = [ip \in ClientIps |-> 0]

PipeWith(fs, capacity) ==
    /\ PipeBare(fs, capacity)
    /\ ProxyStart(NoPolicy)

PipeFields(fs) == PipeWith(fs, ProcRingCap)

\* the IoSpec variable before pickIoSpec has run
NoIoSpec ==
    [audioInName |-> "undefined", stateInName |-> "undefined",
     attenInName |-> "undefined", audioOutName |-> "undefined",
     stateOutName |-> "undefined", frameSize |-> 0, stateSize |-> 0]

\* `state` of a worker that runs its model stateless (null), and a run
\* output without a state tensor (undefined): the vector without elements,
\* which no allocated state is since stateSize is then positive
NoState == <<>>

\* the worker's session once init() has created it on the portable backend
WorkerSession ==
    /\ wk = [pc |-> "ready", todo |-> <<>>, errs |-> <<>>, session |-> "wasm",
             asked |-> <<"wasm">>, tried |-> <<"wasm">>]
    /\ creatable = {"wasm"}

\* the worker once init() has created a session on the portable backend,
\* for a model without a state input (state = null)
WorkerReady ==
    /\ WorkerSession
    /\ state = NoState

\* no attach() or dispose() is under way and none was made
NoCalls ==
    /\ attachPending = 0
    /\ disposePending = 0
    /\ calls = [init |-> 0, attach |-> 0, dispose |-> 0]
    /\ tap = [made |-> 0, connects |-> 0]
    /\ attachLog = [last |-> "none", pre |-> FALSE, ok |-> 0]

\* the engine after init() and attach() have returned
EngineReady ==
    /\ status = "ready"
    /\ worker = "worker"
    /\ ctx = "running"
    /\ source = "node"
    /\ worklet = "node"
    /\ initPc = "done"
    /\ liveWorkers = 1
    /\ NoCalls

\* the engine inside init(), waiting for the worker's answer
EngineLoading ==
    /\ status = "loading-model"
    /\ worker = "worker"
    /\ ctx = "null"
    /\ source = "null"
    /\ worklet = "null"
    /\ initPc = "awaitReady"
    /\ liveWorkers = 1
    /\ NoCalls

\* a new DenoiseEngine()
EngineIdle ==
    /\ status = "idle"
    /\ worker = "null"
    /\ ctx = "null"
    /\ source = "null"
    /\ worklet = "null"
    /\ initPc = "none"
    /\ liveWorkers = 0
    /\ NoCalls

PipeStart(fs) ==
    /\ PipeFields(fs)
    /\ sess = "none"
    /\ ioSpec = NoIoSpec
    /\ WorkerReady
    /\ EngineReady

RingIdle ==
    /\ ring = FloatRingBuffer(RingCap)
    /\ ringFifo = <<>>
    /\ ringHist = <<>>
    /\ ringOut = <<>>
    /\ ringOp = "new"

RingInit ==
    /\ PipeStart(FrameSize)
    /\ RingIdle

RingPush(src) ==
    /\ UNCHANGED pipeVars
    /\ ring' = push(ring, src)
    /\ ringFifo' = LastN(ringFifo \o src, RingCap)
    /\ ringHist' = LastN(ringHist \o src, RingCap + PushOver + 1)
    /\ ringOp' = "push"
    /\ UNCHANGED ringOut

RingRead(n) ==
    /\ UNCHANGED pipeVars
    /\ ring' = read(ring, n).rb
    /\ ringOut' = read(ring, n).out
    /\ ringFifo' = Drop(ringFifo, n)
    /\ ringHist' = <<>>
    /\ ringOp' = "read"

RingConsume(n) ==
    /\ UNCHANGED pipeVars
    /\ ring' = consume(ring, n)
    /\ ringFifo' = Drop(ringFifo, n)
    /\ ringHist' = <<>>
    /\ ringOp' = "consume"
    /\ UNCHANGED ringOut

RingClear ==
    /\ UNCHANGED pipeVars
    /\ ring' = clear(ring)
    /\ ringFifo' = <<>>
    /\ ringHist' = <<>>
    /\ ringOp' = "clear"
    /\ UNCHANGED ringOut

RingNext ==
    \/ \E src \in SeqsOf(RingSamples, 0, RingCap + PushOver) : RingPush(src)
    \/ \E n \in 0..MaxReadLen : RingRead(n)
    \/ \E n \in 0..MaxReadLen : RingConsume(n)
    \/ RingClear

SpecRing == RingInit /\ [][RingNext]_vars

-----------------------------------------------------------------------------
(* FloatRingBuffer claims (checked under SpecRing) *)

\* C1: for every sequence of push (arrays of any length), read, consume and
\* clear calls, the occupancy len satisfies 0 <= len <= capacity.
C1_OccupancyWithinCapacity ==
    /\ 0 <= ring.len
    /\ ring.len <= Len(ring.buf)

\* C2: drop-oldest is exact: once capacity + k samples (k > 0) have been
\* pushed with no read in between, in one push or several, the buffer holds
\* exactly capacity samples and reading them returns the last capacity
\* samples pushed, in push order.
C2_DropOldestExact ==
    Len(ringHist) > RingCap =>
        /\ size(ring) = RingCap
        /\ read(ring, RingCap).out = LastN(ringHist, RingCap)

\* C3: read into an array of length n from a buffer holding m samples returns
\* the min(m, n) oldest buffered samples in FIFO order followed by zeros; the
\* buffer is empty afterwards when m < n, and exactly n samples are removed
\* when m >= n.
C3_ReadFifoThenZeros ==
    [][ringOp' = "read" =>
        LET n == Len(ringOut')
            m == size(ring)
            k == Min(m, n)
        IN  /\ ringOut' = Take(ringFifo, k) \o Zeros(n - k)
            /\ (m < n => size(ring') = 0)
            /\ (m >= n => size(ring') = m - n)]_vars

\* a push longer than the capacity has just returned
RingOversizedPushDone ==
    /\ ringOp = "push"
    /\ Len(ringHist) > RingCap

-----------------------------------------------------------------------------
(* DenoiseProcessor *)

\* the inputs[0] a render callback may be handed: no channel, one channel or
\* two channels of n samples each (the right channel of a stereo block is
\* taken to be silent where the left is at full scale and the reverse)
InputBlocks(n) ==
    {[n |-> n, ch |-> 0, l |-> <<>>, r |-> <<>>]}
    \cup {[n |-> n, ch |-> 1, l |-> a, r |-> <<>>] : a \in [1..n -> InSamples]}
    \cup {[n |-> n, ch |-> 2, l |-> a, r |-> [i \in 1..n |-> FullScale - a[i]]] :
            a \in [1..n -> InSamples]}

\* Math.floor((this.warmupMs / 1000) * sampleRate)
warmupSamples(ms) == (ms * SampleRate) \div 1000

\* Math.max(0, msg.warmupMs | 0)
clampWarmupMs(ms) == Max(0, ms)

\* process(): downmix to mono
downmix(in) ==
    IF in.ch = 2 THEN [i \in 1..in.n |-> (in.l[i] + in.r[i]) \div 2]
    ELSE IF in.ch = 1 THEN in.l
    ELSE Zeros(in.n)

\* the loop condition without its in-flight bound
canSendUnbounded(en, st) ==
    /\ en
    /\ size(st.inRing) >= frameSize

\* the loop condition of sendFramesIfPossible()
canSend(en, st) ==
    /\ en
    /\ size(st.inRing) >= frameSize
    /\ st.inFlight < MaxInFlight

\* sendFramesIfPossible() numbering every frame with the id it found
RECURSIVE sendFramesReusingId(_, _)
sendFramesReusingId(en, st) ==
    IF canSend(en, st)
    THEN LET got == read(st.inRing, frameSize)
             msg == [type |-> "frame", id |-> st.nextId, audio |-> got.out]
         IN  sendFramesReusingId(en,
                 [inRing   |-> got.rb,
                  nextId   |-> st.nextId,
                  inFlight |-> st.inFlight + 1,
                  posted   |-> Append(st.posted, msg)])
    ELSE st

\* sendFramesIfPossible() on st = [inRing, nextId, inFlight, posted], where
\* posted collects the frame messages handed to port.postMessage
RECURSIVE sendFramesIfPossible(_, _)
sendFramesIfPossible(en, st) ==
    IF canSend(en, st)
    THEN LET got == read(st.inRing, frameSize)
             msg == [type |-> "frame", id |-> st.nextId, audio |-> got.out]
         IN  sendFramesIfPossible(en,
                 [inRing   |-> got.rb,
                  nextId   |-> st.nextId + 1,
                  inFlight |-> st.inFlight + 1,
                  posted   |-> Append(st.posted, msg)])
    ELSE st

\* the output step reading whatever the ring holds, zero-filled
emitProcessedPartial(rb, n) ==
    [rb |-> read(rb, n).rb, out |-> read(rb, n).out, did |-> size(rb) >= n]

\* process(): the output step once warmup is over; did tells whether the
\* block was taken from the ring
emitProcessed(rb, n) ==
    IF size(rb) >= n
    THEN [rb |-> read(rb, n).rb, out |-> read(rb, n).out, did |-> TRUE]
    ELSE [rb |-> rb, out |-> Zeros(n), did |-> FALSE]

\* the bypass branch writing a mono input to the left channel only
bypassLeftOnly(in) ==
    IF in.ch = 2 THEN [l |-> in.l, r |-> in.r]
    ELSE IF in.ch = 1 THEN [l |-> in.l, r |-> Zeros(in.n)]
    ELSE [l |-> Zeros(in.n), r |-> Zeros(in.n)]

\* process(): the bypass branch
bypass(in) ==
    IF in.ch = 2 THEN [l |-> in.l, r |-> in.r]
    ELSE IF in.ch = 1 THEN [l |-> in.l, r |-> in.l]
    ELSE [l |-> Zeros(in.n), r |-> Zeros(in.n)]

\* the result branch leaving the in-flight counter as it is
onResultKeep(n) == n

\* port.onmessage, msg.type = 'result': the in-flight counter afterwards
onResultInFlight(n) == IF n > 0 THEN n - 1 ELSE n

\* process() buffering and submitting whether enabled or not
buffersAlways(en) == TRUE

\* process(): the test `if (this.enabled)` that guards buffering, submission
\* and the warmup / processed output
buffers(en) == en

\* process(inputs, outputs) with outputs[0] holding two channels of in.n
\* samples (the node is created with outputChannelCount [2]); a run of the
\* model submits at most maxFrames frames
ProcessCore(in, maxFrames) ==
    /\ call' = in
    /\ IF buffers(enabled)
       THEN LET st == sendFramesIfPossible(enabled,
                          [inRing   |-> push(inRing, downmix(in)),
                           nextId   |-> nextId,
                           inFlight |-> inFlight,
                           posted   |-> <<>>])
            IN  /\ st.nextId <= maxFrames + 1
                /\ inRing' = st.inRing
                /\ nextId' = st.nextId
                /\ inFlight' = st.inFlight
                /\ workletOut' = workletOut \o st.posted
                /\ outstanding' = outstanding \cup (nextId..(st.nextId - 1))
                /\ IF warmupSamplesRemaining > 0
                   THEN LET k == Min(in.n, warmupSamplesRemaining)
                        IN  /\ warmupSamplesRemaining' = warmupSamplesRemaining - k
                            /\ outL' = Zeros(in.n)
                            /\ outR' = Zeros(in.n)
                            /\ warm' = [warm EXCEPT !.silenced = @ + in.n]
                            /\ emitted' = <<>>
                            /\ UNCHANGED <<outRing, outHist>>
                   ELSE LET e == emitProcessed(outRing, in.n)
                        IN  /\ outRing' = e.rb
                            /\ outL' = e.out
                            /\ outR' = e.out
                            /\ outHist' = IF e.did THEN Drop(outHist, in.n) ELSE outHist
                            /\ emitted' = IF e.did THEN Take(outHist, in.n) ELSE <<>>
                            /\ warm' = [warm EXCEPT !.emitted = @ \/ e.did]
                            /\ UNCHANGED warmupSamplesRemaining
       ELSE /\ outL' = bypass(in).l
            /\ outR' = bypass(in).r
            /\ emitted' = <<>>
            /\ UNCHANGED <<inRing, outRing, nextId, inFlight, workletOut,
                           warmupSamplesRemaining, outstanding, outHist, warm>>
    /\ UNCHANGED <<frameSize, enabled, warmupMs, workerIn, workerOut,
                   workletIn, runs, status, staleOut, ringVars, sideVars,
                   modelVars, firstIds, proxyVars>>

Process(in, maxFrames) ==
    /\ ProcessCore(in, maxFrames)
    /\ UNCHANGED echoVars

\* the setWarmupMs branch re-arming the countdown with the new duration
onSetWarmupMsRearm(p, ms) ==
    [p EXCEPT !.warmupMs = clampWarmupMs(ms),
              !.warmupSamplesRemaining = warmupSamples(clampWarmupMs(ms))]

\* port.onmessage, msg.type = 'setWarmupMs', on the processor's fields p
onSetWarmupMs(p, ms) ==
    [p EXCEPT !.warmupMs = clampWarmupMs(ms)]

\* port.onmessage of the processor, for the message at the head of the port
WorkletOnMessageCore ==
    /\ workletIn # <<>>
    /\ workletIn' = Tail(workletIn)
    /\ LET msg == Head(workletIn)
       IN  CASE msg.type = "setEnabled" ->
                  /\ enabled' = msg.enabled
                  /\ IF msg.enabled
                     THEN /\ inRing' = clear(inRing)
                          /\ outRing' = clear(outRing)
                          /\ outHist' = <<>>
                          /\ inFlight' = 0
                          /\ warmupSamplesRemaining' = warmupSamples(warmupMs)
                          /\ warm' = [armed    |-> warmupSamples(warmupMs),
                                      silenced |-> 0,
                                      emitted  |-> FALSE]
                          /\ UNCHANGED staleOut
                     ELSE /\ staleOut' = outstanding
                          /\ UNCHANGED <<inRing, outRing, outHist, inFlight,
                                         warmupSamplesRemaining, warm>>
                  /\ UNCHANGED <<warmupMs, outstanding>>
             [] msg.type = "setWarmupMs" ->
                  /\ LET p == onSetWarmupMs([enabled  |-> enabled,
                                             warmupMs |-> warmupMs,
                                             warmupSamplesRemaining |->
                                                 warmupSamplesRemaining,
                                             inRing   |-> inRing,
                                             outRing  |-> outRing,
                                             inFlight |-> inFlight],
                                            msg.warmupMs)
                     IN  /\ enabled' = p.enabled
                         /\ warmupMs' = p.warmupMs
                         /\ warmupSamplesRemaining' = p.warmupSamplesRemaining
                         /\ inRing' = p.inRing
                         /\ outRing' = p.outRing
                         /\ inFlight' = p.inFlight
                  /\ UNCHANGED <<outHist, warm, staleOut, outstanding>>
             [] msg.type = "result" ->
                  /\ inFlight' = onResultInFlight(inFlight)
                  /\ outRing' = push(outRing, msg.audio)
                  /\ outHist' = LastN(outHist \o [i \in 1..Len(msg.audio) |->
                                          [v |-> msg.audio[i],
                                           stale |-> msg.id \in staleOut]],
                                      Len(outRing.buf))
                  /\ outstanding' = outstanding \ {msg.id}
                  /\ staleOut' = staleOut \ {msg.id}
                  /\ UNCHANGED <<enabled, warmupMs, inRing,
                                 warmupSamplesRemaining, warm>>
    /\ UNCHANGED <<frameSize, nextId, outL, outR, workletOut, workerIn,
                   workerOut, runs, status, call, emitted, ringVars, sideVars,
                   echoVars, modelVars, proxyVars>>

WorkletOnMessage ==
    /\ WorkletOnMessageCore
    /\ UNCHANGED firstIds

-----------------------------------------------------------------------------
(* DenoiseEngine: the control calls and the two message listeners that     *)
(* init() installs once the worker is ready and the worklet node exists.   *)

\* setEnabled / setWarmupMs messages waiting in the worklet's port
CtlWaiting ==
    Cardinality({i \in 1..Len(workletIn) : workletIn[i].type # "result"})

\* DenoiseEngine.setEnabled(enabled)
SetEnabled(b) ==
    /\ worklet # "null"
    /\ CtlWaiting < MaxCtl
    /\ workletIn' = Append(workletIn, [type |-> "setEnabled", enabled |-> b])
    /\ UNCHANGED <<procVars, workletOut, workerIn, workerOut, runs, status,
                   histVars, ringVars, extVars>>

\* DenoiseEngine.setWarmupMs(warmupMs)
SetWarmupMs(ms) ==
    /\ worklet # "null"
    /\ CtlWaiting < MaxCtl
    /\ workletIn' = Append(workletIn, [type |-> "setWarmupMs", warmupMs |-> ms])
    /\ UNCHANGED <<procVars, workletOut, workerIn, workerOut, runs, status,
                   histVars, ringVars, extVars>>

\* this.worklet.port.onmessage: route a frame to the worker
MainOnWorkletMessage ==
    /\ workletOut # <<>>
    /\ workletOut' = Tail(workletOut)
    /\ LET msg == Head(workletOut)
       IN  IF msg.type # "frame" \/ worker = "null"
           THEN UNCHANGED workerIn
           ELSE workerIn' = Append(workerIn,
                    [type |-> "process", id |-> msg.id, audio |-> msg.audio])
    /\ UNCHANGED <<procVars, workerOut, workletIn, runs, status, histVars,
                   ringVars, extVars>>

\* the worker 'message' listener: return results to the worklet, record errors
MainOnWorkerMessage ==
    /\ initPc = "done"
    /\ workerOut # <<>>
    /\ workerOut' = Tail(workerOut)
    /\ LET msg == Head(workerOut)
       IN  CASE msg.type = "result" ->
                  /\ workletIn' = IF worklet = "null" THEN workletIn
                                  ELSE Append(workletIn, msg)
                  /\ UNCHANGED status
             [] msg.type = "error" ->
                  /\ status' = "error"
                  /\ UNCHANGED workletIn
             [] OTHER -> UNCHANGED <<workletIn, status>>
    /\ UNCHANGED <<procVars, workletOut, workerIn, runs, histVars, ringVars, extVars>>

-----------------------------------------------------------------------------
(* Inference worker, after init() has created the session and negotiated   *)
(* ioSpec.frameSize (the frameSize the processor was constructed with).    *)

\* v > 1 ? 1 : v < -1 ? -1 : v
clamp(v) == IF v > FullScale THEN FullScale ELSE IF v < -FullScale THEN -FullScale ELSE v

\* the copy loop of processFrame(): outCopy[i] = clamp(out[i] ?? 0)
outCopy(out) ==
    [i \in 1..frameSize |-> clamp(IF i <= Len(out) THEN out[i] ELSE 0)]

\* what session.run may answer for a frame: an audio tensor (here the frame
\* amplified by two, whole or one sample short), no audio tensor, or a
\* rejection
EngineReplies(frame) ==
    LET loud == [i \in 1..Len(frame) |-> 2 * frame[i]]
    IN  {[kind |-> "audio", data |-> loud],
         [kind |-> "audio", data |-> Take(loud, Len(frame) - 1)],
         [kind |-> "missing", data |-> <<>>],
         [kind |-> "throw", data |-> <<>>]}

\* the passthrough reply posting a buffer that was already transferred
passthroughDetached(msg) == [type |-> "result", id |-> msg.id, audio |-> <<>>]

\* the passthrough reply of processFrame()
passthrough(msg) == [type |-> "result", id |-> msg.id, audio |-> msg.audio]

\* self.onmessage, msg.type = 'process': processFrame() up to its await
WorkerOnMessage ==
    /\ workerIn # <<>>
    /\ Head(workerIn).type # "init"
    /\ workerIn' = Tail(workerIn)
    /\ LET msg == Head(workerIn)
       IN  IF msg.type # "process" \/ wk.session = "null"
           THEN UNCHANGED <<workerOut, runs>>
           ELSE IF Len(msg.audio) # frameSize
           THEN /\ workerOut' = Append(workerOut, passthrough(msg))
                /\ UNCHANGED runs
           ELSE /\ runs' = runs \cup {[id |-> msg.id, audio |-> msg.audio]}
                /\ UNCHANGED workerOut
    /\ UNCHANGED <<procVars, workletOut, workletIn, status, histVars, ringVars, extVars>>

\* the recurrent model: the state it returns for the state it was fed
evolve(st) == [i \in DOMAIN st |-> st[i] + 1]

\* outputs[ioSpec.stateOutName]?.data of a run: nothing for a stateless
\* model; for a stateful one the next state, a vector of another length, or
\* nothing
StateOutputs(run) ==
    IF state = NoState \/ run.id \notin DOMAIN stateFed
    THEN {NoState}
    ELSE {evolve(stateFed[run.id]), Append(evolve(stateFed[run.id]), 0), NoState}

\* session.run reads the state tensor of a suspended run: the tensor wraps
\* the worker's `state` array itself, so the values read are those the array
\* holds at that moment, which lies between the call and its settling
RunReads(run) ==
    /\ run \in runs
    /\ state # NoState
    /\ run.id \notin DOMAIN stateFed
    /\ stateFed' = stateFed @@ (run.id :> state)
    /\ UNCHANGED <<procVars, portVars, runs, status, histVars, ringVars,
                   sideVars, echoVars, state, stateRet, firstIds, proxyVars>>

\* processFrame() from the point where `await session.run(feeds)` settles
\* with reply, to its end
RunSettles(run, reply) ==
    /\ run \in runs
    /\ state # NoState => run.id \in DOMAIN stateFed
    /\ runs' = runs \ {run}
    /\ \E ns \in StateOutputs(run) :
         IF reply.kind = "audio" /\ state # NoState /\ ns # NoState
            /\ Len(ns) = Len(state)
         THEN /\ state' = ns
              /\ stateRet' = stateRet @@ (run.id :> ns)
              /\ UNCHANGED stateFed
         ELSE UNCHANGED modelVars
    /\ workerOut' =
         CASE reply.kind = "audio" ->
                Append(workerOut,
                       [type |-> "result", id |-> run.id, audio |-> outCopy(reply.data)])
           [] reply.kind = "missing" ->
                Append(workerOut, passthrough(run))
           [] reply.kind = "throw" ->
                workerOut \o <<[type |-> "error"], passthrough(run)>>
    /\ UNCHANGED <<procVars, workletOut, workerIn, workletIn, status, histVars,
                   ringVars, sideVars, echoVars, firstIds, proxyVars>>

-----------------------------------------------------------------------------
(* Spec: the processor, the worker and the engine's routing, from the      *)
(* state in which init() has completed and the processor is constructed.   *)

Init ==
    /\ PipeStart(FrameSize)
    /\ RingIdle

Next ==
    \/ \E n \in 1..MaxBlock : \E in \in InputBlocks(n) : Process(in, MaxFrames)
    \/ WorkletOnMessage
    \/ \E b \in BOOLEAN : SetEnabled(b)
    \/ \E ms \in WarmupChoices : SetWarmupMs(ms)
    \/ MainOnWorkletMessage
    \/ MainOnWorkerMessage
    \/ WorkerOnMessage
    \/ \E run \in runs : \E reply \in EngineReplies(run.audio) : RunSettles(run, reply)

Spec == Init /\ [][Next]_vars

(* SpecFlow: the same system with single-sample frames, more of them, fed  *)
(* mono blocks only and with the warmup duration left at its default.      *)

MonoBlocks(n) == {in \in InputBlocks(n) : in.ch = 1}

NextFlow ==
    \/ \E n \in 1..MaxBlock : \E in \in MonoBlocks(n) : Process(in, FlowMaxFrames)
    \/ WorkletOnMessage
    \/ \E b \in BOOLEAN : SetEnabled(b)
    \/ MainOnWorkletMessage
    \/ MainOnWorkerMessage
    \/ WorkerOnMessage
    \/ \E run \in runs : \E reply \in EngineReplies(run.audio) : RunSettles(run, reply)

InitFlow ==
    /\ PipeStart(FlowFrameSize)
    /\ RingIdle

SpecFlow == InitFlow /\ [][NextFlow]_vars

(* pickIoSpec(sess).  A session is described by                            *)
(*   [hasMeta, inputNames, inputMetadata, outputNames, outputMetadata]     *)
(* where the metadata maps a name to [dimensions, type]; a dimension is    *)
(* [k, v]: a number v, the string '1', another string, or null.            *)

Undefined == "undefined"

Num(n) == [k |-> "number", v |-> n]
StrOne == [k |-> "string", v |-> 1]
StrDyn == [k |-> "string", v |-> 0]
Null == [k |-> "null", v |-> 0]

\* meta?.type?.includes('float') || meta?.type === 'tensor(float)'
isFloat(meta) == meta.type \in {"float32", "float16", "tensor(float)"}

\* arr.find(pred) as an index into arr, 0 when nothing is found; hit[i] is
\* the value of pred on arr[i]
Find(hit) ==
    LET I == {i \in DOMAIN hit : hit[i]}
    IN  IF I = {} THEN 0 ELSE CHOOSE i \in I : \A j \in I : i <= j

\* names.map(name => [name, metadata[name]]).filter(float)
floatCandidates(names, metadata) ==
    LET all == [i \in 1..Len(names) |-> [name |-> names[i], meta |-> metadata[names[i]]]]
    IN  SelectSeq(all, LAMBDA c : isFloat(c.meta))

\* the audio predicate without its upper limit
isAudioDimsUnlimited(d) ==
    Len(d) = 1 /\ d[1].k = "number" /\ d[1].v > 32

\* d.length === 1 && typeof d[0] === 'number' && d[0] > 32 && d[0] < 4096
isAudioDims(d) ==
    Len(d) = 1 /\ d[1].k = "number" /\ d[1].v > 32 /\ d[1].v < 4096

\* d.length === 1 && typeof d[0] === 'number' && d[0] >= 4096
isStateDims(d) ==
    Len(d) = 1 /\ d[1].k = "number" /\ d[1].v >= 4096

\* d.length === 0 || (d.length === 1 && (d[0] === 1 || d[0] === null || d[0] === '1'))
isAttenDims(d) ==
    \/ Len(d) = 0
    \/ Len(d) = 1 /\ (d[1] = Num(1) \/ d[1] = Null \/ d[1] = StrOne)

\* arr[i]?.[0], for the result i of Find or a plain index
nameAt(arr, i) == IF i >= 1 /\ i <= Len(arr) THEN arr[i].name ELSE Undefined

pickIoSpec(sn) ==
    IF \/ Len(sn.inputNames) = 0
       \/ Len(sn.outputNames) = 0
       \/ ~sn.hasMeta
    THEN [audioInName  |-> "input_frame",
          stateInName  |-> "states",
          attenInName  |-> "atten_lim_db",
          audioOutName |-> IF Len(sn.outputNames) >= 1 THEN sn.outputNames[1]
                           ELSE "enhanced_audio_frame",
          stateOutName |-> IF Len(sn.outputNames) >= 2 THEN sn.outputNames[2]
                           ELSE Undefined,
          frameSize    |-> ModelFrameSize,
          stateSize    |-> ModelStateSize]
    ELSE LET candidates == floatCandidates(sn.inputNames, sn.inputMetadata)
             audioIn == Find([i \in DOMAIN candidates |->
                                  isAudioDims(candidates[i].meta.dimensions)])
             stateIn == Find([i \in DOMAIN candidates |->
                                  isStateDims(candidates[i].meta.dimensions)])
             attenIn == Find([i \in DOMAIN candidates |->
                                  isAttenDims(candidates[i].meta.dimensions)])
             fs == IF audioIn # 0 /\ candidates[audioIn].meta.dimensions[1].k = "number"
                   THEN candidates[audioIn].meta.dimensions[1].v
                   ELSE ModelFrameSize
             ss == IF stateIn # 0 /\ candidates[stateIn].meta.dimensions[1].k = "number"
                   THEN candidates[stateIn].meta.dimensions[1].v
                   ELSE 0
             outCandidates == floatCandidates(sn.outputNames, sn.outputMetadata)
             audioOutHit == Find([i \in DOMAIN outCandidates |->
                                /\ Len(outCandidates[i].meta.dimensions) = 1
                                /\ outCandidates[i].meta.dimensions[1] = Num(fs)])
             audioOut == IF audioOutHit # 0 THEN audioOutHit ELSE 1
             stateOutHit == Find([i \in DOMAIN outCandidates |->
                                /\ Len(outCandidates[i].meta.dimensions) = 1
                                /\ ss # 0
                                /\ outCandidates[i].meta.dimensions[1] = Num(ss)])
             stateOut == IF stateOutHit # 0 THEN stateOutHit ELSE 2
         IN  [audioInName  |-> IF audioIn # 0 THEN candidates[audioIn].name
                               ELSE sn.inputNames[1],
              stateInName  |-> nameAt(candidates, stateIn),
              attenInName  |-> nameAt(candidates, attenIn),
              audioOutName |-> IF nameAt(outCandidates, audioOut) # Undefined
                               THEN nameAt(outCandidates, audioOut)
                               ELSE sn.outputNames[1],
              stateOutName |-> nameAt(outCandidates, stateOut),
              frameSize    |-> fs,
              stateSize    |-> ss]

(* SpecEcho: one enabled session with a passthrough engine that answers    *)
(* before the next render callback: every message is delivered and every   *)
(* run settles between two callbacks.  Blocks are mono, of EchoBlock       *)
(* samples; the frame size is not a multiple of the block, as 480 is not   *)
(* of 128.                                                                 *)

EchoInputs ==
    {[n |-> EchoBlock, ch |-> 1, l |-> a, r |-> <<>>] :
        a \in [1..EchoBlock -> WorkerSamples]}

\* nothing is in transit between the worklet, the main thread and the worker
Quiet ==
    /\ workletOut = <<>>
    /\ workerIn = <<>>
    /\ workerOut = <<>>
    /\ workletIn = <<>>
    /\ runs = {}

\* session.run of a passthrough engine
EchoReply(frame) == [kind |-> "audio", data |-> frame]

EchoEnable ==
    /\ ~enabled
    /\ Quiet
    /\ SetEnabled(TRUE)

EchoProcess(in) ==
    /\ enabled
    /\ Quiet
    /\ Len(fed) + in.n <= EchoMaxSamples
    /\ ProcessCore(in, EchoMaxSamples)
    /\ fed' = fed \o downmix(in)
    /\ heard' = IF heard = <<>> /\ emitted' = <<>> THEN <<>> ELSE heard \o outL'

EchoSettles ==
    \E run \in runs : RunSettles(run, EchoReply(run.audio))

NextEcho ==
    \/ EchoEnable
    \/ \E in \in EchoInputs : EchoProcess(in)
    \/ WorkletOnMessage
    \/ MainOnWorkletMessage
    \/ MainOnWorkerMessage
    \/ WorkerOnMessage
    \/ EchoSettles

InitEcho ==
    /\ PipeWith(EchoFrameSize, EchoRingCap)
    /\ RingIdle
    /\ sess = "none"
    /\ ioSpec = NoIoSpec
    /\ WorkerReady
    /\ EngineReady

SpecEcho == InitEcho /\ [][NextEcho]_vars

(* The worker's init(): backend acquisition.                               *)

Backends == {"webgpu", "webgl", "wasm"}

\* a worker whose module has just been loaded
FreshWorker ==
    [pc |-> "idle", todo |-> <<>>, errs |-> <<>>, session |-> "null",
     asked |-> <<>>, tried |-> <<>>]

\* tryProviders: the known backends of the list in order, wasm if there is none
tryProviders(preferred) ==
    LET known == SelectSeq(preferred, LAMBDA b : b \in Backends)
    IN  IF Len(known) = 0 THEN <<"wasm">> ELSE known

\* the options still to go through after a session was created, had the
\* loop no break
restAfterSuccessNoBreak(todo) == Tail(todo)

\* the options still to go through after a session was created: break
restAfterSuccess(todo) == <<>>

\* the acquisition loop from the option at the head of w.todo on, given
\* the outcome of its InferenceSession.create
afterCreate(w, ok) ==
    LET b == Head(w.todo)
    IN  IF ok
        THEN [w EXCEPT !.session = b, !.todo = restAfterSuccess(w.todo),
                       !.tried = Append(@, b)]
        ELSE [w EXCEPT !.errs = Append(@, b), !.todo = Tail(w.todo),
                       !.tried = Append(@, b)]

\* self.onmessage, msg.type = 'init': init() up to its first await
WorkerOnInit ==
    /\ workerIn # <<>>
    /\ Head(workerIn).type = "init"
    /\ workerIn' = Tail(workerIn)
    /\ wk' = [wk EXCEPT !.pc = "creating",
                        !.todo = tryProviders(Head(workerIn).preferredBackends),
                        !.errs = <<>>,
                        !.asked = Head(workerIn).preferredBackends,
                        !.tried = <<>>]
    /\ UNCHANGED <<procVars, workletOut, workerOut, workletIn, runs, status,
                   histVars, ringVars, posted, sess, ioSpec, creatable, lifeVars,
                   restVars>>

\* init() from the point where `await InferenceSession.create` settles to
\* the next await or to its end
WorkerCreateSettles ==
    /\ wk.pc = "creating"
    /\ LET w == afterCreate(wk, Head(wk.todo) \in creatable)
       IN  IF w.todo # <<>>
           THEN /\ wk' = w
                /\ UNCHANGED workerOut
           ELSE IF w.session = "null"
           THEN /\ wk' = [w EXCEPT !.pc = "failed"]
                /\ workerOut' = Append(workerOut,
                                       [type |-> "error", message |-> w.errs])
           ELSE /\ wk' = [w EXCEPT !.pc = "ready"]
                /\ workerOut' = Append(workerOut,
                                       [type |-> "ready", backend |-> w.session])
    /\ UNCHANGED <<procVars, workletOut, workerIn, workletIn, runs, status,
                   histVars, ringVars, posted, sess, ioSpec, creatable, lifeVars,
                   restVars>>

(* SpecAcquire: the worker's init() on its own, for every preference list  *)
(* of one to three backends and every set of backends that can be created. *)

PrefLists == SeqsOf(Backends, 1, Cardinality(Backends))

InitAcquire ==
    /\ PipeFields(FrameSize)
    /\ RingIdle
    /\ sess = "none"
    /\ ioSpec = NoIoSpec
    /\ wk = FreshWorker
    /\ state = NoState
    /\ creatable \in SUBSET Backends
    /\ EngineLoading

\* worker.postMessage({ type: 'init', modelUrl, preferredBackends })
PostInit(preferred) ==
    /\ wk = FreshWorker
    /\ workerIn = <<>>
    /\ workerIn' = <<[type |-> "init", preferredBackends |-> preferred]>>
    /\ UNCHANGED <<procVars, workletOut, workerOut, workletIn, runs, status,
                   histVars, ringVars, sideVars, restVars>>

NextAcquire ==
    \/ \E preferred \in PrefLists : PostInit(preferred)
    \/ WorkerOnInit
    \/ WorkerCreateSettles

SpecAcquire == InitAcquire /\ [][NextAcquire]_vars

(* SpecIo: pickIoSpec applied to the descriptions of time-domain models:   *)
(* any selection of the audio, state and attenuation inputs and of the     *)
(* audio and state outputs, declared in any order.                         *)

\* the sequences that list every element of S once
Perms(S) ==
    {p \in [1..Cardinality(S) -> S] : \A i, j \in 1..Cardinality(S) : p[i] = p[j] => i = j}

\* shapes of the attenuation input: a scalar, [1], [null], ['1']
AttenShapes == {<<>>, <<Num(1)>>, <<Null>>, <<StrOne>>}

\* shapes of the audio input and output: fixed, or a dynamic axis
AudioShapes == {<<Num(ModelFrameSize)>>, <<StrDyn>>}

FloatTypes == {"float32", "tensor(float)"}

InputNames == {"input_frame", "states", "atten_lim_db"}

OutputNames == {"enhanced_audio_frame", "new_states"}

Descriptions ==
    {[hasMeta        |-> hm,
      inputNames     |-> ins,
      inputMetadata  |->
          [n \in InputNames |->
              [type |-> ty,
               dimensions |-> CASE n = "input_frame" -> au
                                [] n = "states" -> <<Num(ModelStateSize)>>
                                [] OTHER -> at]],
      outputNames    |-> outs,
      outputMetadata |->
          [n \in OutputNames |->
              [type |-> ty,
               dimensions |-> IF n = "enhanced_audio_frame" THEN au
                              ELSE <<Num(ModelStateSize)>>]]] :
        hm \in BOOLEAN,
        ins \in UNION {Perms(S) : S \in SUBSET InputNames},
        outs \in UNION {Perms(S) : S \in SUBSET OutputNames},
        au \in AudioShapes,
        at \in AttenShapes,
        ty \in FloatTypes}

InitIo ==
    /\ PipeFields(FrameSize)
    /\ RingIdle
    /\ WorkerReady
    /\ EngineReady
    /\ sess \in Descriptions
    /\ ioSpec = NoIoSpec

\* ioSpec = pickIoSpec(session)
PickIoSpec ==
    /\ ioSpec = NoIoSpec
    /\ ioSpec' = pickIoSpec(sess)
    /\ UNCHANGED <<ringVars, procVars, portVars, runs, status, histVars, posted,
                   sess, workerInitVars, lifeVars, restVars>>

SpecIo == InitIo /\ [][PickIoSpec]_vars

(* SpecWorker: the worker on its own.  The main thread posts process       *)
(* messages whose frame is of the negotiated size, one sample shorter or   *)
(* one longer; the replies stay in workerOut.                              *)

\* the frames a process message may carry
WorkerFrames == SeqsOf(WorkerSamples, frameSize - 1, frameSize + 1)

\* this.worker.postMessage({ type: 'process', id, audio })
PostProcess(audio) ==
    /\ initPc = "done"
    /\ worker # "null"
    /\ Cardinality(posted) < WorkerMaxFrames
    /\ LET msg == [type |-> "process", id |-> Cardinality(posted) + 1,
                   audio |-> audio]
       IN  /\ workerIn' = Append(workerIn, msg)
           /\ posted' = posted \cup {msg}
    /\ UNCHANGED <<procVars, workletOut, workerOut, workletIn, runs, status,
                   histVars, ringVars, sess, ioSpec, workerInitVars, lifeVars,
                   restVars>>

WorkerStep ==
    \/ WorkerOnMessage
    \/ \E run \in runs : \E reply \in EngineReplies(run.audio) : RunSettles(run, reply)

NextWorker ==
    \/ \E audio \in WorkerFrames : PostProcess(audio)
    \/ WorkerStep

\* the worker's event loop delivers every queued message, and every
\* session.run settles
SpecWorker ==
    /\ Init
    /\ [][NextWorker]_vars
    /\ WF_vars(WorkerOnMessage)
    /\ WF_vars(\E run \in runs : \E reply \in EngineReplies(run.audio) :
                    RunSettles(run, reply))

(* DenoiseEngine: init(), attach() and dispose().  Each is an async        *)
(* function: a call runs to its first await, and a further step runs it    *)
(* from there once the awaited promise has settled.                        *)

\* preferredBackends: ['webgpu', 'webgl', 'wasm']
EnginePrefs == <<"webgpu", "webgl", "wasm">>

\* the engine's worker has nothing queued and nothing under way
WorkerQuiet ==
    /\ workerIn = <<>>
    /\ workerOut = <<>>
    /\ runs = {}
    /\ wk.pc # "creating"

\* init(opts) up to `await readyPromise`.  The page starts one init() at a
\* time (ensureEngine keeps the promise of the call under way).
InitCall ==
    /\ initPc \in {"none", "done", "failed"}
    /\ calls.init < MaxInits
    /\ worker = "null" \/ WorkerQuiet
    /\ calls' = [calls EXCEPT !.init = @ + 1]
    /\ status' = "loading-model"
    /\ worker' = "worker"
    /\ liveWorkers' = liveWorkers + 1
    /\ wk' = FreshWorker
    /\ workerIn' = <<[type |-> "init", preferredBackends |-> EnginePrefs]>>
    /\ initPc' = "awaitReady"
    /\ UNCHANGED <<procVars, workletOut, workerOut, workletIn, runs, histVars,
                   ringVars, posted, sess, ioSpec, creatable, ctx, source,
                   worklet, attachPending, disposePending, tap, attachLog,
                   restVars>>

\* the listener of readyPromise, and init() from `await readyPromise` to
\* `await this.ctx.audioWorklet.addModule(...)`
InitOnWorkerMessage ==
    /\ initPc = "awaitReady"
    /\ worker # "null"
    /\ workerOut # <<>>
    /\ workerOut' = Tail(workerOut)
    /\ LET msg == Head(workerOut)
       IN  CASE msg.type = "ready" ->
                  /\ status' = "ready"
                  /\ ctx' \in {"suspended", "running"}
                  /\ initPc' = "awaitModule"
             [] msg.type = "error" ->
                  /\ initPc' = "failed"
                  /\ UNCHANGED <<status, ctx>>
             [] OTHER -> UNCHANGED <<status, ctx, initPc>>
    /\ UNCHANGED <<procVars, workletOut, workerIn, workletIn, runs, histVars,
                   ringVars, posted, sess, ioSpec, workerInitVars, worker, source,
                   worklet, attachPending, disposePending, calls, tap, attachLog,
                   liveWorkers, restVars>>

\* init() from the point where addModule has resolved to its end: the
\* worklet node (a new DenoiseProcessor with a new port) and the listeners.
\* made tells whether `new AudioWorkletNode(this.ctx, ...)` returned a node.
InitModuleSettles(made) ==
    /\ initPc = "awaitModule"
    /\ ctx = "null" => ~made
    /\ ctx \in {"suspended", "running"} => made
    /\ IF made
       THEN /\ worklet' = "node"
            /\ initPc' = "done"
            /\ enabled' = FALSE
            /\ warmupMs' = DefaultWarmupMs
            /\ warmupSamplesRemaining' = 0
            /\ inRing' = FloatRingBuffer(Len(inRing.buf))
            /\ outRing' = FloatRingBuffer(Len(outRing.buf))
            /\ nextId' = 1
            /\ inFlight' = 0
            /\ workletIn' = <<>>
            /\ workletOut' = <<>>
       ELSE /\ initPc' = "failed"
            /\ UNCHANGED <<worklet, enabled, warmupMs, warmupSamplesRemaining,
                           inRing, outRing, nextId, inFlight, workletIn,
                           workletOut>>
    /\ UNCHANGED <<frameSize, outL, outR, workerIn, workerOut, runs, status,
                   histVars, ringVars, posted, sess, ioSpec, workerInitVars,
                   worker, ctx, source, attachPending, disposePending, calls, tap,
                   attachLog, liveWorkers, restVars>>

\* the precondition of attach() checking the context only
attachReadyCtxOnly(c, w) == c # "null"

\* the precondition of attach(): this.ctx && this.worklet
attachReady(c, w) == c # "null" /\ w # "null"

\* attach() creating and connecting a source node on every call
attachTailUnguarded ==
    [source |-> "node",
     tap    |-> [made |-> tap.made + 1, connects |-> tap.connects + 2],
     last   |-> "ok"]

\* attach() from `if (!this.source)` to its end, as [source, tap, last]
attachTail ==
    IF source # "null"
    THEN [source |-> source, tap |-> tap, last |-> "ok"]
    ELSE IF worklet = "null"
    THEN [source |-> "node",
          tap    |-> [tap EXCEPT !.made = @ + 1],
          last   |-> "threw"]
    ELSE [source |-> "node",
          tap    |-> [made |-> tap.made + 1, connects |-> tap.connects + 2],
          last   |-> "ok"]

\* attach(audioEl) up to `await this.ctx.resume()`, or to its end when the
\* context is running
AttachCall ==
    /\ calls.attach < MaxAttach
    /\ calls' = [calls EXCEPT !.attach = @ + 1]
    /\ IF ~attachReady(ctx, worklet)
       THEN /\ attachLog' = [attachLog EXCEPT !.last = "precondition", !.pre = TRUE]
            /\ UNCHANGED <<source, tap, attachPending>>
       ELSE IF ctx # "running"
       THEN /\ attachPending' = attachPending + 1
            /\ attachLog' = [attachLog EXCEPT !.last = "pending"]
            /\ UNCHANGED <<source, tap>>
       ELSE /\ source' = attachTail.source
            /\ tap' = attachTail.tap
            /\ attachLog' = [attachLog EXCEPT
                                !.last = attachTail.last,
                                !.ok = IF attachTail.last = "ok" THEN @ + 1 ELSE @]
            /\ UNCHANGED attachPending
    /\ UNCHANGED <<procVars, portVars, runs, status, histVars, ringVars, posted,
                   sess, ioSpec, workerInitVars, worker, ctx, worklet, initPc,
                   disposePending, liveWorkers, restVars>>

\* attach() from the point where `this.ctx.resume()` has settled to its
\* end; resumed tells whether the promise resolved
AttachResumes(resumed) ==
    /\ attachPending > 0
    /\ attachPending' = attachPending - 1
    /\ ctx \in {"null", "closed"} => ~resumed
    /\ ctx = "running" => resumed
    /\ IF resumed
       THEN /\ ctx' = "running"
            /\ source' = attachTail.source
            /\ tap' = attachTail.tap
            /\ attachLog' = [attachLog EXCEPT
                                !.last = attachTail.last,
                                !.ok = IF attachTail.last = "ok" THEN @ + 1 ELSE @]
       ELSE /\ attachLog' = [attachLog EXCEPT !.last = "threw"]
            /\ UNCHANGED <<ctx, source, tap>>
    /\ UNCHANGED <<procVars, portVars, runs, status, histVars, ringVars, posted,
                   sess, ioSpec, workerInitVars, worker, worklet, initPc,
                   disposePending, calls, liveWorkers, restVars>>

\* this.worker?.terminate(): the number of live workers afterwards
terminate(w, live) == IF w = "null" THEN live ELSE live - 1

\* dispose() up to `await this.ctx.close()`, or to its end when there is no
\* context.  Closing the context rejects the resume() promises still
\* pending on it, so the attach() calls waiting for them throw.
DisposeCall ==
    /\ calls.dispose < MaxDispose
    /\ calls' = [calls EXCEPT !.dispose = @ + 1]
    /\ worklet' = "null"
    /\ source' = "null"
    /\ tap' = [made |-> 0, connects |-> 0]
    /\ IF ctx # "null"
       THEN /\ ctx' = "closed"
            /\ disposePending' = disposePending + 1
            /\ attachPending' = 0
            /\ attachLog' = IF attachPending > 0
                            THEN [attachLog EXCEPT !.last = "threw"]
                            ELSE attachLog
            /\ workletIn' = IF worklet = "null" THEN workletIn
                            ELSE Append(workletIn,
                                        [type |-> "setEnabled", enabled |-> FALSE])
            /\ UNCHANGED <<worker, status, workerIn, workerOut, runs, wk,
                           liveWorkers>>
       ELSE /\ worker' = "null"
            /\ liveWorkers' = terminate(worker, liveWorkers)
            /\ status' = "idle"
            /\ workerIn' = <<>>
            /\ workerOut' = <<>>
            /\ runs' = {}
            /\ wk' = FreshWorker
            /\ workletIn' = IF worklet = "null" THEN workletIn
                            ELSE Append(workletIn,
                                        [type |-> "setEnabled", enabled |-> FALSE])
            /\ UNCHANGED <<ctx, disposePending, attachPending, attachLog>>
    /\ UNCHANGED <<procVars, workletOut, histVars, ringVars, posted, sess, ioSpec,
                   creatable, initPc, restVars>>

\* dispose() from the point where `this.ctx.close()` has settled to its end
DisposeResumes ==
    /\ disposePending > 0
    /\ disposePending' = disposePending - 1
    /\ ctx' = "null"
    /\ worker' = "null"
    /\ liveWorkers' = terminate(worker, liveWorkers)
    /\ status' = "idle"
    /\ workerIn' = <<>>
    /\ workerOut' = <<>>
    /\ runs' = {}
    /\ wk' = FreshWorker
    /\ UNCHANGED <<procVars, workletOut, workletIn, histVars, ringVars, posted,
                   sess, ioSpec, creatable, source, worklet, initPc, attachPending,
                   calls, tap, attachLog, restVars>>

(* SpecLife: one engine from construction on, with every interleaving of   *)
(* its calls, of their continuations and of the worker's steps.  Frames    *)
(* reach the worker once the engine is wired; the engine answers them or   *)
(* throws.                                                                 *)

\* the sets of backends that can be created in SpecLife
LifeCreatable == {{}, {"wasm"}}

\* a frame of full-scale samples
LifeFrame == [i \in 1..frameSize |-> FullScale]

\* what session.run answers in SpecLife
LifeReplies == {[kind |-> "audio", data |-> LifeFrame], [kind |-> "throw", data |-> <<>>]}

\* the one frame that reaches the worker in a run of SpecLife, from the
\* enabled processor of the current worklet node
LifePostProcess ==
    /\ posted = {}
    /\ worklet # "null"
    /\ enabled
    /\ PostProcess(LifeFrame)

InitLife ==
    /\ PipeFields(FrameSize)
    /\ RingIdle
    /\ sess = "none"
    /\ ioSpec = NoIoSpec
    /\ wk = FreshWorker
    /\ state = NoState
    /\ creatable \in LifeCreatable
    /\ EngineIdle

NextLife ==
    \/ InitCall
    \/ WorkerOnInit
    \/ WorkerCreateSettles
    \/ InitOnWorkerMessage
    \/ \E made \in BOOLEAN : InitModuleSettles(made)
    \/ AttachCall
    \/ \E resumed \in BOOLEAN : AttachResumes(resumed)
    \/ DisposeCall
    \/ DisposeResumes
    \/ \E b \in BOOLEAN : SetEnabled(b)
    \/ WorkletOnMessage
    \/ LifePostProcess
    \/ WorkerOnMessage
    \/ \E run \in runs : \E reply \in LifeReplies : RunSettles(run, reply)
    \/ MainOnWorkerMessage

SpecLife == InitLife /\ [][NextLife]_vars

\* SpecLifeFair: SpecLife where the event loops of the page and of the
\* worker deliver every queued message and every awaited promise that can
\* settle does settle
SpecLifeFair ==
    /\ InitLife
    /\ [][NextLife]_vars
    /\ WF_vars(WorkerOnInit)
    /\ WF_vars(WorkerCreateSettles)
    /\ WF_vars(InitOnWorkerMessage)
    /\ WF_vars(\E made \in BOOLEAN : InitModuleSettles(made))
    /\ WF_vars(\E resumed \in BOOLEAN : AttachResumes(resumed))
    /\ WF_vars(DisposeResumes)

-----------------------------------------------------------------------------
(* SpecMemory: the pipeline around a model that keeps a recurrent state.    *)
(* The processor is fed mono blocks of one frame; every run answers with    *)
(* an audio frame.                                                         *)

\* the state vector allocated by the worker's init(): new Float32Array(stateSize)
InitialState == Zeros(StateSize)

MemoryReply(frame) == [kind |-> "audio", data |-> frame]

\* port.onmessage of the processor, noting for an enable of a disabled
\* processor the id the next frame will carry
MemoryWorkletOnMessage ==
    /\ WorkletOnMessageCore
    /\ firstIds' = IF /\ Head(workletIn).type = "setEnabled"
                      /\ Head(workletIn).enabled
                      /\ ~enabled
                   THEN firstIds \cup {nextId}
                   ELSE firstIds

InitMemory ==
    /\ PipeFields(FlowFrameSize)
    /\ RingIdle
    /\ sess = "none"
    /\ ioSpec = NoIoSpec
    /\ WorkerSession
    /\ state = InitialState
    /\ EngineReady

NextMemory ==
    \/ \E in \in MonoBlocks(frameSize) : Process(in, MemoryMaxFrames)
    \/ MemoryWorkletOnMessage
    \/ \E b \in BOOLEAN : SetEnabled(b)
    \/ MainOnWorkletMessage
    \/ MainOnWorkerMessage
    \/ WorkerOnMessage
    \/ \E run \in runs : RunReads(run)
    \/ \E run \in runs : RunSettles(run, MemoryReply(run.audio))

SpecMemory == InitMemory /\ [][NextMemory]_vars

-----------------------------------------------------------------------------
(* Stream proxy: handler() of api/stream.ts; handleLocalStreamProxy() of    *)
(* vite.config.ts is the same code.                                        *)
(*                                                                         *)
(* A hostname is [kind, labels, lead]: its dot-separated labels (numbers    *)
(* for a dotted-decimal address, which is what the \d+ pattern matches),    *)
(* and its leading characters as far as startsWith() looks at them.        *)

HostCdn == [kind |-> "name", labels |-> <<"cdn", "example", "com">>, lead |-> "cd"]
HostEvil == [kind |-> "name", labels |-> <<"evil", "example", "net">>, lead |-> "ev"]
HostLocal == [kind |-> "name", labels |-> <<"localhost">>, lead |-> "lo"]
HostPrinter == [kind |-> "name", labels |-> <<"printer", "local">>, lead |-> "pr"]
HostFc == [kind |-> "name", labels |-> <<"fcdn", "example", "com">>, lead |-> "fc"]
HostMeta == [kind |-> "ipv4", labels |-> <<169, 254, 169, 254>>, lead |-> "16"]
HostLoop6 == [kind |-> "ipv6", labels |-> <<"[::1]">>, lead |-> "[:"]

Hosts == {HostCdn, HostEvil, HostLocal, HostPrinter, HostFc, HostMeta, HostLoop6}

\* host patterns: [wild, labels] is labels, or *.labels when wild
Policies ==
    {NoPolicy,
     [allow |-> {}, block |-> {[wild |-> TRUE, labels |-> <<"example", "net">>]}],
     [allow |-> {[wild |-> FALSE, labels |-> <<"cdn", "example", "com">>]},
      block |-> {}]}

isPrivateIPv4(parts) ==
    IF Len(parts) # 4 \/ \E i \in 1..Len(parts) : parts[i] < 0 \/ parts[i] > 255
    THEN FALSE
    ELSE LET a == parts[1]
             b == parts[2]
         IN  \/ a = 10
             \/ a = 127
             \/ a = 0
             \/ a = 169 /\ b = 254
             \/ a = 172 /\ b >= 16 /\ b <= 31
             \/ a = 192 /\ b = 168

isBlockedHostname(h) ==
    \/ h.labels = <<>>
    \/ /\ h.kind = "name"
       /\ \/ h.labels = <<"localhost">>
          \/ Len(h.labels) >= 2 /\ h.labels[Len(h.labels)] \in {"localhost", "local"}
    \/ h.kind = "ipv4" /\ isPrivateIPv4(h.labels)
    \/ h.kind = "ipv6" /\ h.labels \in {<<"::1">>, <<"[::1]">>}
    \/ h.lead \in {"fe80:", "fc", "fd"}

\* hostname === suffix || hostname.endsWith('.' + suffix), or hostname === pattern
hostMatchesPattern(h, pat) ==
    /\ h.kind = "name"
    /\ IF pat.wild
       THEN /\ Len(pat.labels) <= Len(h.labels)
            /\ pat.labels = SubSeq(h.labels, Len(h.labels) - Len(pat.labels) + 1,
                                   Len(h.labels))
       ELSE h.labels = pat.labels

isHostAllowedByPolicy(h) ==
    IF \E pat \in policy.block : hostMatchesPattern(h, pat) THEN FALSE
    ELSE IF policy.allow # {} THEN \E pat \in policy.allow : hostMatchesPattern(h, pat)
    ELSE TRUE

\* the url query parameter: absent, or [scheme, creds, host] with creds
\* telling whether the URL carries a username or password
RawUrls ==
    {[given |-> FALSE, scheme |-> "https", creds |-> FALSE, host |-> HostCdn]}
    \cup {[given |-> TRUE, scheme |-> sc, creds |-> FALSE, host |-> h] :
              sc \in {"https"}, h \in Hosts}
    \cup {[given |-> TRUE, scheme |-> "ftp", creds |-> FALSE, host |-> HostCdn],
          [given |-> TRUE, scheme |-> "https", creds |-> TRUE, host |-> HostCdn]}

\* parseTargetUrl(raw) # null
parseTargetUrl(raw) ==
    /\ raw.scheme \in {"http", "https"}
    /\ ~raw.creds
    /\ ~isBlockedHostname(raw.host)
    /\ isHostAllowedByPolicy(raw.host)

\* RATE_STATE.get(ip) as an index into the entries, 0 for undefined
rateIndex(rs, ip) ==
    IF \E i \in 1..Len(rs) : rs[i].ip = ip
    THEN CHOOSE i \in 1..Len(rs) : rs[i].ip = ip
    ELSE 0

\* RATE_STATE.set(ip, entry): in place for a known key, else appended
rateSet(rs, entry) ==
    IF rateIndex(rs, entry.ip) # 0
    THEN [rs EXCEPT ![rateIndex(rs, entry.ip)] = entry]
    ELSE Append(rs, entry)

\* the entries without the n first ones of a stable sort by lastSeen
RECURSIVE dropOldest(_, _)
dropOldest(rs, n) ==
    IF n <= 0 \/ rs = <<>> THEN rs
    ELSE LET k == CHOOSE i \in 1..Len(rs) :
                     /\ \A j \in 1..Len(rs) : rs[i].lastSeen <= rs[j].lastSeen
                     /\ \A j \in 1..(i - 1) : rs[j].lastSeen > rs[i].lastSeen
         IN  dropOldest(SubSeq(rs, 1, k - 1) \o SubSeq(rs, k + 1, Len(rs)), n - 1)

cleanupRateState(rs, t) ==
    LET staleCutoff == t - Max(RateWindow + RateBlock, StaleFloor)
        kept == SelectSeq(rs, LAMBDA e : ~(e.inFlight = 0 /\ e.lastSeen < staleCutoff))
    IN  IF Len(kept) <= RateStateMaxEntries THEN kept
        ELSE dropOldest(kept, Len(kept) - RateStateMaxEntries)

\* tryAcquireRateSlot: the entry after `if (now - entry.windowStart >=
\* RATE_WINDOW_MS) { ... }`
windowOf(entry, t) ==
    IF t - entry.windowStart >= RateWindow
    THEN [entry EXCEPT !.windowStart = t, !.requestCount = 0]
    ELSE entry

\* tryAcquireRateSlot(ip, now): [ok, retry, over, rs] with retry the
\* retryAfterSeconds (0 when ok; a tick of the clock is a second), over
\* telling whether this request overran the request cap, and rs the
\* RATE_STATE left behind
tryAcquireRateSlot(rs, ip, t) ==
    LET rs1 == cleanupRateState(rs, t)
        entry == IF rateIndex(rs1, ip) # 0 THEN rs1[rateIndex(rs1, ip)]
                 ELSE [ip |-> ip, windowStart |-> t, requestCount |-> 0,
                       inFlight |-> 0, blockedUntil |-> 0, lastSeen |-> t]
        e2 == windowOf(entry, t)
    IN  IF t < entry.blockedUntil
        THEN [ok |-> FALSE, retry |-> Max(1, entry.blockedUntil - t), over |-> FALSE,
              rs |-> rateSet(rs1, [entry EXCEPT !.lastSeen = t])]
        ELSE IF e2.inFlight >= RateMaxInflight
        THEN [ok |-> FALSE, retry |-> 1, over |-> FALSE,
              rs |-> rateSet(rs1, [e2 EXCEPT !.lastSeen = t])]
        ELSE IF e2.requestCount >= RateMaxRequests
        THEN [ok |-> FALSE, retry |-> Max(1, RateBlock), over |-> TRUE,
              rs |-> rateSet(rs1, [e2 EXCEPT !.blockedUntil = t + RateBlock,
                                             !.lastSeen = t])]
        ELSE [ok |-> TRUE, retry |-> 0, over |-> FALSE,
              rs |-> rateSet(rs1, [e2 EXCEPT !.requestCount = @ + 1,
                                             !.inFlight = @ + 1,
                                             !.lastSeen = t])]

releaseRateSlot(rs, ip, t) ==
    IF rateIndex(rs, ip) = 0 THEN rs
    ELSE [rs EXCEPT ![rateIndex(rs, ip)] =
              [@ EXCEPT !.inFlight = Max(0, @ - 1), !.lastSeen = t]]

\* what fetch(current, { redirect: 'manual' }) settles with: a rejection, or
\* a response [status, loc, body] with loc the Location header (see RawUrls)
\* and body telling whether the response has a body
NoLocation == [given |-> FALSE, scheme |-> "https", creds |-> FALSE, host |-> HostCdn]

FetchOutcomes ==
    {[kind |-> "reject", status |-> 0, loc |-> NoLocation, body |-> FALSE],
     [kind |-> "response", status |-> 200, loc |-> NoLocation, body |-> TRUE],
     [kind |-> "response", status |-> 404, loc |-> NoLocation, body |-> TRUE],
     [kind |-> "response", status |-> 302, loc |-> NoLocation, body |-> FALSE]}
    \cup {[kind |-> "response", status |-> 302, loc |-> l, body |-> FALSE] :
              l \in {r \in RawUrls : r.given /\ ~r.creds}}

\* the requests in progress without request id
without(id) == [k \in DOMAIN reqs \ {id} |-> reqs[k]]

\* handler(req, res) up to its first await, for a request from ip with the
\* given method and url parameter
Arrive(ip, method, raw) ==
    /\ nextReq' = nextReq + 1
    /\ IF method \notin {"GET", "HEAD"}
       THEN /\ answer' = [upstream |-> 0, client |-> 405, retry |-> 0]
            /\ UNCHANGED <<rateState, reqs, admits, overrun>>
       ELSE IF ~raw.given \/ ~parseTargetUrl(raw)
       THEN /\ answer' = [upstream |-> 0, client |-> 400, retry |-> 0]
            /\ UNCHANGED <<rateState, reqs, admits, overrun>>
       ELSE LET rateGate == tryAcquireRateSlot(rateState, ip, now)
            IN  /\ rateState' = rateGate.rs
                /\ overrun' = IF rateGate.over
                              THEN [overrun EXCEPT ![ip] = now + RateBlock]
                              ELSE overrun
                /\ IF ~rateGate.ok
                   THEN /\ answer' = [upstream |-> 0, client |-> 429,
                                       retry |-> rateGate.retry]
                        /\ UNCHANGED <<reqs, admits>>
                   ELSE /\ Cardinality(DOMAIN reqs) < MaxActive
                        /\ reqs' = reqs @@ (nextReq :>
                                      [ip |-> ip, method |-> method,
                                       pc |-> "fetching", current |-> raw.host,
                                       i |-> 0, fetches |-> 1, client |-> 0])
                        /\ admits' = [admits EXCEPT ![ip] = Append(@, now)]
                        /\ UNCHANGED answer
    /\ UNCHANGED <<now, policy, ringVars, procVars, portVars, runs, status,
                   histVars, sideVars, echoVars, modelVars, firstIds>>

\* handler() from the point where the `await fetch` inside
\* fetchWithSafeRedirects settles with out, to the next fetch or to the end
\* of the handler, its finally block included
FetchSettles(id, out) ==
    /\ id \in DOMAIN reqs
    /\ reqs[id].pc = "fetching"
    /\ LET rq == reqs[id]
           released == releaseRateSlot(rateState, rq.ip, now)
           isFinal == \/ out.status < 300
                      \/ out.status > 399
                      \/ ~out.loc.given
           thrown == \/ out.kind = "reject"
                     \/ /\ ~isFinal
                        /\ \/ out.loc.scheme \notin {"http", "https"}
                           \/ isBlockedHostname(out.loc.host)
                           \/ rq.i + 1 > MaxRedirects
       IN  IF thrown
           THEN /\ answer' = [upstream |-> 0, client |-> 502, retry |-> 0]
                /\ reqs' = without(id)
                /\ rateState' = released
           ELSE IF isFinal
           THEN /\ answer' = [upstream |-> out.status, client |-> out.status,
                               retry |-> 0]
                /\ rateState' = released
                /\ IF rq.method = "HEAD" \/ ~out.body
                   THEN reqs' = without(id)
                   ELSE reqs' = [reqs EXCEPT ![id].pc = "streaming",
                                             ![id].client = out.status]
           ELSE /\ reqs' = [reqs EXCEPT ![id].current = out.loc.host,
                                        ![id].i = @ + 1,
                                        ![id].fetches = @ + 1]
                /\ UNCHANGED <<answer, rateState>>
    /\ UNCHANGED <<now, policy, nextReq, admits, overrun, ringVars, procVars, portVars,
                   runs, status, histVars, sideVars, echoVars, modelVars,
                   firstIds>>

\* body.pipe(res) comes to its end: the upstream body has been streamed
StreamEnds(id) ==
    /\ id \in DOMAIN reqs
    /\ reqs[id].pc = "streaming"
    /\ reqs' = without(id)
    /\ UNCHANGED <<now, policy, rateState, nextReq, answer, admits, overrun, ringVars,
                   procVars, portVars, runs, status, histVars, sideVars,
                   echoVars, modelVars, firstIds>>

\* time passes
Tick ==
    /\ now < MaxTime
    /\ now' = now + 1
    /\ UNCHANGED <<policy, rateState, reqs, nextReq, answer, admits, overrun, ringVars,
                   procVars, portVars, runs, status, histVars, sideVars,
                   echoVars, modelVars, firstIds>>

\* the engine and the pipeline of a page that has not started denoising
PageIdle ==
    /\ PipeBare(FrameSize, ProcRingCap)
    /\ RingIdle
    /\ sess = "none"
    /\ ioSpec = NoIoSpec
    /\ WorkerReady
    /\ EngineIdle

(* SpecProxy: requests of one client, with any method and url parameter,    *)
(* under each host policy, against upstream hosts that answer, redirect or  *)
(* fail in every way.  The clock stands still.                              *)

InitProxy ==
    /\ PageIdle
    /\ \E pol \in Policies : ProxyStart(pol)

NextProxy ==
    \/ /\ nextReq <= ProxyMaxReqs
       /\ \E method \in {"GET", "HEAD", "POST"} : \E raw \in RawUrls :
             Arrive("a", method, raw)
    \/ \E id \in DOMAIN reqs : \E out \in FetchOutcomes : FetchSettles(id, out)
    \/ \E id \in DOMAIN reqs : StreamEnds(id)

SpecProxy == InitProxy /\ [][NextProxy]_vars

(* SpecGate: the rate gate.  Requests of two clients for an admissible URL, *)
(* answered by the upstream host or failing, while time passes.              *)

GoodUrl == [given |-> TRUE, scheme |-> "https", creds |-> FALSE, host |-> HostCdn]

GateOutcomes == {out \in FetchOutcomes : out.kind = "reject" \/ out.status = 200}

InitGate ==
    /\ PageIdle
    /\ ProxyStart(NoPolicy)

NextGate ==
    \/ /\ nextReq <= MaxReqs
       /\ \E ip \in ClientIps : \E method \in {"GET", "HEAD"} :
             Arrive(ip, method, GoodUrl)
    \/ \E id \in DOMAIN reqs : \E out \in GateOutcomes : FetchSettles(id, out)
    \/ \E id \in DOMAIN reqs : StreamEnds(id)
    \/ Tick

SpecGate == InitGate /\ [][NextGate]_vars

(* SpecBlock: the temporary block.  HEAD requests of two clients for an     *)
(* admissible URL, each answered 200 by the upstream host, while time       *)
(* passes.                                                                  *)

BlockOutcomes == {out \in FetchOutcomes : out.status = 200}

NextBlock ==
    \/ /\ nextReq <= BlockMaxReqs
       /\ \E ip \in ClientIps : Arrive(ip, "HEAD", GoodUrl)
    \/ \E id \in DOMAIN reqs : \E out \in BlockOutcomes : FetchSettles(id, out)
    \/ Tick

SpecBlock == InitGate /\ [][NextBlock]_vars

-----------------------------------------------------------------------------
(* SpecLock: the pipeline of SpecFlow fed single-sample mono blocks, with   *)
(* any setEnabled toggles, in which every message posted is delivered and   *)
(* every run settles: each frame's result reaches the processor in the end. *)

LockProcess ==
    \E in \in MonoBlocks(frameSize) : Process(in, LockMaxFrames)

\* what session.run answers in SpecLock: the frame unchanged, or a rejection
LockReplies(frame) ==
    {[kind |-> "audio", data |-> frame], [kind |-> "throw", data |-> <<>>]}

LockRunSettles ==
    \E run \in runs : \E reply \in LockReplies(run.audio) : RunSettles(run, reply)

NextLock ==
    \/ LockProcess
    \/ WorkletOnMessage
    \/ \E b \in BOOLEAN : SetEnabled(b)
    \/ MainOnWorkletMessage
    \/ MainOnWorkerMessage
    \/ WorkerOnMessage
    \/ LockRunSettles

SpecLock ==
    /\ InitFlow
    /\ [][NextLock]_vars
    /\ WF_vars(MainOnWorkletMessage)
    /\ WF_vars(WorkerOnMessage)
    /\ WF_vars(LockRunSettles)
    /\ WF_vars(MainOnWorkerMessage)
    /\ WF_vars(WorkletOnMessage)

-----------------------------------------------------------------------------
(* DenoiseProcessor claims *)

\* some process() callback of Spec takes this step
ProcessStep ==
    \E n \in 1..MaxBlock : \E in \in InputBlocks(n) : Process(in, MaxFrames)

\* some process() callback of SpecFlow takes this step
FlowProcessStep ==
    \E n \in 1..MaxBlock : \E in \in MonoBlocks(n) : Process(in, FlowMaxFrames)

\* the sample values of a sequence of outHist entries
Values(h) == [i \in 1..Len(h) |-> h[i].v]

\* the samples a ring holds, oldest first
Contents(rb) ==
    [i \in 1..rb.len |-> rb.buf[((rb.r + i - 1) % Len(rb.buf)) + 1]]

\* C4: the in-flight counter satisfies 0 <= inFlight <= maxInFlight in every
\* reachable state, for any interleaving of process() callbacks, setEnabled
\* messages and result messages, bursts included.
C4_InFlightWithinMax ==
    /\ 0 <= inFlight
    /\ inFlight <= MaxInFlight

\* one callback has just posted MaxInFlight frames at once
C4_BurstSaturates ==
    /\ enabled
    /\ call.n = MaxInFlight * frameSize
    /\ nextId = MaxInFlight + 1
    /\ inFlight = MaxInFlight
    /\ Len(workletOut) = MaxInFlight
    /\ size(inRing) = 0

\* C5: the number of frames posted by the worklet whose result the worklet
\* has not yet received never exceeds maxInFlight, also across
\* setEnabled(false) / setEnabled(true) cycles.
C5_OutstandingWithinMax ==
    Cardinality(outstanding) <= MaxInFlight

\* C6: after setEnabled(true), exactly floor(warmupMs/1000 * sampleRate)
\* output samples are silenced by warmup before the first sample taken from
\* the output ring is emitted, for every render block size.
C6_WarmupSilencesExactly ==
    warm.emitted => warm.silenced = warm.armed

\* C7: an enabled, warmed-up process() asking for n samples emits n zeros and
\* leaves the output ring unchanged when the ring holds fewer than n; when it
\* holds at least n, it emits exactly the n oldest samples and removes them.
C7_UnderrunAllOrNothing ==
    [][(enabled /\ warmupSamplesRemaining = 0 /\ FlowProcessStep) =>
        LET n == call'.n
        IN  IF size(outRing) < n
            THEN /\ outL' = Zeros(n)
                 /\ outR' = Zeros(n)
                 /\ outRing' = outRing
            ELSE /\ outL' = Values(Take(outHist, n))
                 /\ outR' = Values(Take(outHist, n))
                 /\ size(outRing') = size(outRing) - n
                 /\ Contents(outRing') = Values(Drop(outHist, n))]_vars

\* after warmup, a callback asking for more than the ring's one (non-zero)
\* sample has been answered with silence
C7_PartialUnderrun ==
    /\ enabled
    /\ warmupSamplesRemaining = 0
    /\ warm.emitted
    /\ emitted = <<>>
    /\ size(outRing) > 0
    /\ size(outRing) < call.n
    /\ outL = Zeros(call.n)
    /\ outR = Zeros(call.n)
    /\ \E i \in 1..Len(outHist) : outHist[i].v # 0

\* the older of two different buffered samples has just been emitted
C7_OldestEmitted ==
    /\ enabled
    /\ Len(emitted) = 1
    /\ outL = Values(emitted)
    /\ outR = Values(emitted)
    /\ size(outRing) = 1
    /\ Contents(outRing) # outL

\* C8: while disabled, every process() writes the raw input to the output:
\* stereo channel for channel, mono duplicated to both channels, absent input
\* as silence; no sample of the output ring is emitted.
C8_BypassCopiesInput ==
    [][(~enabled /\ ProcessStep) =>
        LET in == call'
        IN  /\ in.ch = 2 => (outL' = in.l /\ outR' = in.r)
            /\ in.ch = 1 => (outL' = in.l /\ outR' = in.l)
            /\ in.ch = 0 => (outL' = Zeros(in.n) /\ outR' = Zeros(in.n))
            /\ outRing' = outRing
            /\ emitted' = <<>>]_vars

\* a disabled callback has copied a stereo block while processed samples sit
\* in the output ring
C8_StereoBypassed ==
    /\ ~enabled
    /\ call.ch = 2
    /\ outL = call.l
    /\ outR = call.r
    /\ outL # outR
    /\ size(outRing) > 0

\* a disabled callback has duplicated a mono block
C8_MonoBypassed ==
    /\ ~enabled
    /\ call.ch = 1
    /\ call.n = 2
    /\ outL = call.l
    /\ outR = call.l

\* C9: no processed sample of a frame that was in flight when setEnabled(false)
\* was handled is ever emitted, whether its result arrives while disabled or
\* after a later setEnabled(true).
C9_NoStaleSampleEmitted ==
    \A i \in 1..Len(emitted) : ~emitted[i].stale

\* C10: results are handled by the worklet in submission order: a result is
\* never handled while a frame with a smaller id is still outstanding.
C10_ResultsInSubmissionOrder ==
    [][\A id \in outstanding \ outstanding' :
         \A j \in outstanding : j >= id]_vars

-----------------------------------------------------------------------------
(* Worker claims (checked under SpecWorker) *)

\* the result messages for id that the worker has posted
ResultsFor(id) ==
    {i \in 1..Len(workerOut) : workerOut[i].type = "result" /\ workerOut[i].id = id}

\* the worker is done with the process message msg
Answered(msg) ==
    /\ \A i \in 1..Len(workerIn) : workerIn[i] # msg
    /\ \A run \in runs : run.id # msg.id

\* at most one result per id, only for ids received; a received message that
\* the worker is done with has its result; an error report is followed at
\* once by the result carrying the original samples
C11_Safety ==
    /\ \A i \in 1..Len(workerOut) : workerOut[i].type = "result" =>
            \E msg \in posted : msg.id = workerOut[i].id
    /\ \A msg \in posted :
            /\ Cardinality(ResultsFor(msg.id)) <= 1
            /\ Answered(msg) => Cardinality(ResultsFor(msg.id)) = 1
            /\ Len(msg.audio) # frameSize =>
                  \A i \in ResultsFor(msg.id) : workerOut[i].audio = msg.audio
    /\ \A i \in 1..Len(workerOut) : workerOut[i].type = "error" =>
            /\ i < Len(workerOut)
            /\ workerOut[i + 1].type = "result"
            /\ \E msg \in posted :
                  /\ msg.id = workerOut[i + 1].id
                  /\ msg.audio = workerOut[i + 1].audio

\* C11: every process message received by an initialised worker eventually
\* produces exactly one result message with the same id (never none, never
\* two) on the success, size-mismatch, missing-output and exception paths;
\* on the exception path the result carries the original samples.
C11_ExactlyOneResult ==
    /\ []C11_Safety
    /\ \A id \in 1..WorkerMaxFrames :
          (\E msg \in posted : msg.id = id) ~> (Cardinality(ResultsFor(id)) = 1)

\* every message was answered, one through the exception path and one
\* because its frame had the wrong size
C11_ThrowAndMismatchAnswered ==
    /\ Cardinality(posted) = WorkerMaxFrames
    /\ \A msg \in posted : Answered(msg) /\ Cardinality(ResultsFor(msg.id)) = 1
    /\ \E i \in 1..Len(workerOut) : workerOut[i].type = "error"
    /\ \E msg \in posted : Len(msg.audio) # frameSize

\* C12: if the engine's audio output for a frame has a sample count other
\* than the negotiated frame size, the result posted for that frame is the
\* original input samples, not a truncated or zero-padded engine output.
C12_MismatchedOutputPassthrough ==
    [][\A run \in runs : \A reply \in EngineReplies(run.audio) :
          (/\ reply.kind = "audio"
           /\ Len(reply.data) # frameSize
           /\ RunSettles(run, reply))
          => workerOut'[Len(workerOut')] = passthrough(run)]_vars

\* the description C13 is about: all three inputs and both outputs, with
\* shapes [480], [45304], a scalar ([] or [1]) and [480], [45304]
ClaimedModel(sn) ==
    /\ sn.hasMeta
    /\ Len(sn.inputNames) = 3
    /\ Len(sn.outputNames) = 2
    /\ sn.inputMetadata["input_frame"].dimensions = <<Num(ModelFrameSize)>>
    /\ sn.inputMetadata["atten_lim_db"].dimensions \in {<<>>, <<Num(1)>>}

\* C13: pickIoSpec, given float inputs of shapes [480], [45304] and a scalar
\* in any declaration order and float outputs of shapes [480] and [45304],
\* assigns audio-in, state-in, attenuation-in, audio-out and state-out to
\* them, with frameSize = 480 and stateSize = 45304.
C13_RolesAssigned ==
    (ioSpec # NoIoSpec /\ ClaimedModel(sess)) =>
        ioSpec = [audioInName  |-> "input_frame",
                  stateInName  |-> "states",
                  attenInName  |-> "atten_lim_db",
                  audioOutName |-> "enhanced_audio_frame",
                  stateOutName |-> "new_states",
                  frameSize    |-> ModelFrameSize,
                  stateSize    |-> ModelStateSize]

\* the roles were assigned for a model that declares its state input first,
\* its audio input last and its state output first
C13_StateDeclaredFirst ==
    /\ ioSpec # NoIoSpec
    /\ ClaimedModel(sess)
    /\ sess.inputNames = <<"states", "atten_lim_db", "input_frame">>
    /\ sess.outputNames = <<"new_states", "enhanced_audio_frame">>
    /\ ioSpec.audioInName = "input_frame"
    /\ ioSpec.audioOutName = "enhanced_audio_frame"

-----------------------------------------------------------------------------
(* End to end (checked under SpecEcho) *)

IsPrefix(a, b) == Len(a) <= Len(b) /\ a = Take(b, Len(a))

\* C14: with a passthrough engine, once warmup has elapsed the output
\* samples (leaving out the silent prefix) equal the mono input samples one
\* for one, and the output lags the input by at most
\* maxInFlight * frameSize samples.
C14_EchoMatchesInput ==
    heard # <<>> =>
        /\ IsPrefix(heard, fed)
        /\ Len(fed) - Len(heard) <= MaxInFlight * frameSize

-----------------------------------------------------------------------------
(* Backend acquisition (checked under SpecAcquire) *)

\* the position in list of its first backend that can be created, 0 if none
FirstCreatable(list) ==
    LET I == {i \in 1..Len(list) : list[i] \in creatable}
    IN  IF I = {} THEN 0 ELSE CHOOSE i \in I : \A j \in I : i <= j

\* C16: acquisition tries the preference list in order and stops at the
\* first success: the backend of the ready message is the earliest backend
\* of the list whose session creation succeeds, no backend after it is
\* attempted, and a failure is recorded for every backend attempted before.
C16_FirstSuccessWins ==
    \A i \in 1..Len(workerOut) : workerOut[i].type = "ready" =>
        LET k == FirstCreatable(wk.asked)
        IN  /\ k # 0
            /\ workerOut[i].backend = wk.asked[k]
            /\ wk.tried = Take(wk.asked, k)
            /\ wk.errs = Take(wk.asked, k - 1)

\* the third backend of the list was acquired after two different
\* backends had failed
C16_ThirdChoiceReady ==
    /\ Len(wk.asked) = 3
    /\ wk.asked[1] # wk.asked[2]
    /\ wk.errs = Take(wk.asked, 2)
    /\ workerOut = <<[type |-> "ready", backend |-> wk.asked[3]]>>

\* the first backend of the list was acquired and the others left alone
C16_FirstChoiceReady ==
    /\ Len(wk.asked) = 3
    /\ wk.tried = Take(wk.asked, 1)
    /\ wk.asked[2] \in creatable
    /\ workerOut = <<[type |-> "ready", backend |-> wk.asked[1]]>>

-----------------------------------------------------------------------------
(* DenoiseEngine claims (checked under SpecLife) *)

\* C15: if session creation fails for every backend attempted during
\* init(), the engine's status becomes error (with the aggregated message);
\* it does not remain loading-model.
C15_TotalFailureIsError ==
    (initPc = "failed" /\ wk.pc = "failed") => status = "error"

\* C17: once the status is error, no later operation or message (init,
\* attach, setEnabled, dispose, worker replies) changes it.
C17_ErrorIsTerminal ==
    [][status = "error" => status' = "error"]_vars

\* some attach() call runs from `if (!this.source)` to its end in this step
AttachFinishes ==
    \/ AttachCall /\ ctx = "running" /\ worklet # "null"
    \/ AttachResumes(TRUE)

\* C18: attach is idempotent: once a source node exists, a further attach
\* creates no source node and makes no graph connection, so at most one
\* source node exists per engine between init and dispose, and exactly one
\* after a successful attach.
C18_AttachIdempotent ==
    /\ [](tap.made <= 1 /\ (source # "null" => tap.made = 1))
    /\ [][(AttachFinishes /\ source # "null") =>
            (source' = source /\ tap' = tap /\ attachLog'.last = "ok")]_vars

\* two attach() calls have succeeded on one source node
C18_AttachedTwice ==
    /\ calls.dispose = 0
    /\ attachLog.ok = 2
    /\ attachLog.last = "ok"
    /\ source = "node"
    /\ tap = [made |-> 1, connects |-> 2]

DisposeFinishes ==
    \/ DisposeCall /\ ctx = "null"
    \/ DisposeResumes

\* C20: dispose() may be called any number of times and in any state; when
\* a call completes the status is idle and the worker, context, source and
\* worklet references are all released.
C20_DisposeReleasesAll ==
    [][DisposeFinishes =>
        /\ status' = "idle"
        /\ worker' = "null"
        /\ ctx' = "null"
        /\ source' = "null"
        /\ worklet' = "null"]_vars

-----------------------------------------------------------------------------
(* Control messages of the processor (checked under Spec) *)

\* the processor handles the message at the head of its port, of type t
WorkletHandles(t) ==
    /\ workletIn # <<>>
    /\ Head(workletIn).type = t
    /\ workletIn' = Tail(workletIn)

\* the processor handles setEnabled(true)
WorkletHandlesEnable ==
    /\ WorkletHandles("setEnabled")
    /\ Head(workletIn).enabled

\* C21: a setWarmupMs message changes only the stored warmup duration: an
\* already-armed countdown, both rings, the enabled flag and the in-flight
\* counter are left as they were, and the countdown is armed (raised) only
\* by a setEnabled(true), with the duration stored at that moment.
C21_SetWarmupMsOnlyStores ==
    [][/\ WorkletHandles("setWarmupMs") =>
            /\ warmupMs' = Max(0, Head(workletIn).warmupMs)
            /\ UNCHANGED <<warmupSamplesRemaining, inRing, outRing, enabled,
                           inFlight>>
       /\ warmupSamplesRemaining' > warmupSamplesRemaining =>
            /\ WorkletHandlesEnable
            /\ warmupSamplesRemaining' = (warmupMs * SampleRate) \div 1000
      ]_vars

\* the stored duration was changed while a countdown armed with the previous
\* one was still running
C21_ChangedWhileArmed ==
    /\ enabled
    /\ warmupSamplesRemaining > (warmupMs * SampleRate) \div 1000

\* C22: when a disabled processor handles setEnabled(true), immediately
\* afterwards both rings are empty, the in-flight counter is 0 and the
\* countdown is floor(warmupMs / 1000 * sampleRate) for the stored warmupMs.
C22_EnableResets ==
    [][(~enabled /\ WorkletHandlesEnable) =>
            /\ enabled'
            /\ inRing'.len = 0
            /\ outRing'.len = 0
            /\ inFlight' = 0
            /\ warmupSamplesRemaining' = (warmupMs' * SampleRate) \div 1000
            /\ warmupMs' = warmupMs
      ]_vars

\* an enable has reset the counter while a frame of the previous session was
\* still in flight, and with a duration other than the default
C22_ResetWithFrameInFlight ==
    /\ enabled
    /\ inFlight = 0
    /\ staleOut # {}
    /\ inRing.len = 0
    /\ warmupMs # DefaultWarmupMs
    /\ warm.armed = 0

-----------------------------------------------------------------------------
(* Recurrent model state (checked under SpecMemory) *)

\* C23: whenever denoising is re-enabled after having been disabled, the
\* model state is cleared: the run of the first frame posted after the
\* enable is fed a state vector of zeros.
C23_StateClearedOnEnable ==
    \A id \in firstIds \cap DOMAIN stateFed : stateFed[id] = Zeros(StateSize)

\* C24: for a stateful model the state fed to the run of frame k + 1 is the
\* state returned by the run of frame k, whatever the interleaving of the
\* process messages and the runs.
C24_StateChained ==
    \A k \in DOMAIN stateRet :
        (k + 1) \in DOMAIN stateFed => stateFed[k + 1] = stateRet[k]

-----------------------------------------------------------------------------
(* Frames posted by the processor (checked under SpecFlow) *)

\* the messages the processor posts in this step
NewFrames == SubSeq(workletOut', Len(workletOut) + 1, Len(workletOut'))

\* C25: every frame message posted by the worklet carries exactly frameSize
\* samples, the oldest ones of the input ring, and its id is greater than
\* the id of every frame posted before: ids are handed out in increasing
\* order by a counter that never goes back, disable / enable cycles included.
C25_FramesFullAndFresh ==
    [][/\ nextId' >= nextId
       /\ Len(workletOut') > Len(workletOut) =>
            LET held == Contents(push(inRing, downmix(call')))
            IN  /\ nextId' = nextId + Len(NewFrames)
                /\ \A i \in 1..Len(NewFrames) :
                     /\ NewFrames[i].type = "frame"
                     /\ NewFrames[i].id = nextId + i - 1
                     /\ Len(NewFrames[i].audio) = frameSize
                     /\ NewFrames[i].audio =
                            SubSeq(held, (i - 1) * frameSize + 1, i * frameSize)
      ]_vars

\* a frame was posted after a re-enable while a frame of the session before
\* was still in flight
C25_FrameAfterReenable ==
    /\ enabled
    /\ staleOut # {}
    /\ \E id \in outstanding \ staleOut : \A old \in staleOut : id > old

-----------------------------------------------------------------------------
(* Backpressure (checked under SpecLock) *)

\* C26: no permanent backpressure lockup.  When every frame's result
\* reaches the processor in the end, then for any setEnabled toggles an
\* enabled processor holding a whole frame with its in-flight counter at
\* maxInFlight sees the counter drop below maxInFlight; and a callback of
\* an enabled processor that holds a whole frame with the counter below
\* maxInFlight posts a frame.
C26_NoLockup ==
    /\ (enabled /\ size(inRing) >= frameSize /\ inFlight >= MaxInFlight)
          ~> (inFlight < MaxInFlight)
    /\ [][(/\ LockProcess
           /\ enabled
           /\ size(push(inRing, downmix(call'))) >= frameSize
           /\ inFlight < MaxInFlight)
          => Len(workletOut') > Len(workletOut)]_vars

\* the counter is at maxInFlight while a whole frame waits in the input
\* ring, one of the frames in flight dating from before a disable
C26_SaturatedWithBacklog ==
    /\ enabled
    /\ size(inRing) >= frameSize
    /\ inFlight = MaxInFlight
    /\ staleOut # {}

-----------------------------------------------------------------------------
(* The rate gate of the stream proxy (checked under SpecGate) *)

\* the requests of client ip that the gate admitted and that have not
\* finished: fetching upstream, or streaming the upstream body
InProgress(ip) == {id \in DOMAIN reqs : reqs[id].ip = ip}

\* C27: for each client IP the number of proxy requests in progress at the
\* same time, admitted by the rate gate and with an upstream body that has
\* not finished streaming to the client, never exceeds RATE_MAX_INFLIGHT.
C27_InFlightCapped ==
    \A ip \in ClientIps : Cardinality(InProgress(ip)) <= RateMaxInflight

\* the admissions of client ip at a time in [t0, t0 + RATE_WINDOW_MS)
AdmittedIn(ip, t0) ==
    {k \in DOMAIN admits[ip] :
        admits[ip][k] >= t0 /\ admits[ip][k] < t0 + RateWindow}

\* C28: the window of the rate gate slides: in any interval of time of
\* length RATE_WINDOW_MS at most RATE_MAX_REQUESTS requests of one client IP
\* are admitted.
C28_SlidingWindow ==
    \A ip \in ClientIps : \A t0 \in 0..MaxTime :
        Cardinality(AdmittedIn(ip, t0)) <= RateMaxRequests

-----------------------------------------------------------------------------
(* Upstream answers and redirects of the stream proxy (checked under *)
(* SpecProxy)                                                         *)

\* C29: when the final upstream response has a status outside 2xx / 3xx the
\* client is answered with status 502, never with the upstream status.
C29_UpstreamFailureIs502 ==
    (answer.upstream # 0 /\ answer.upstream \notin 200..399)
        => answer.client = 502

\* what parseTargetUrl demands of the hostname of the initial URL
HostAdmissible(h) == ~isBlockedHostname(h) /\ isHostAllowedByPolicy(h)

\* the requests for which this step issues an upstream fetch
Fetching ==
    {id \in DOMAIN reqs' :
        \/ id \notin DOMAIN reqs
        \/ reqs'[id].fetches > reqs[id].fetches}

\* C30: for one client request at most 5 redirect hops are followed, 6
\* upstream fetches at most, and no upstream fetch, the first one or one to
\* a redirect target, goes to a hostname that the checks of the initial URL
\* reject: private, loopback, link-local and .local hosts, hosts that match
\* the block-list, hosts outside a non-empty allow-list.
C30_RedirectsSafe ==
    [][\A id \in Fetching :
          /\ reqs'[id].fetches <= MaxRedirects + 1
          /\ HostAdmissible(reqs'[id].current)
      ]_vars

-----------------------------------------------------------------------------
(* The temporary block and the size of the limiter table (checked under *)
(* SpecBlock)                                                            *)

\* C31: once a client IP has overrun the request cap at time t, no request
\* of that IP is admitted while now < t + RATE_BLOCK_MS, whatever other
\* client IPs request in between and even with the limiter table at its
\* size cap; and every 429 answer carries a retry-after of 1 second or more.
C31_BlockHolds ==
    [][/\ \A ip \in ClientIps :
            now < overrun[ip] => admits'[ip] = admits[ip]
       /\ (nextReq' # nextReq /\ answer'.client = 429) => answer'.retry >= 1
      ]_vars

\* C32: the limiter table is bounded: RATE_STATE never holds more than
\* RATE_STATE_MAX_ENTRIES entries.
C32_TableBounded == Len(rateState) <= RateStateMaxEntries

-----------------------------------------------------------------------------
(* Slot accounting of the rate gate (checked under SpecGate) *)

\* RATE_STATE.get(ip)?.inFlight ?? 0 and RATE_STATE.get(ip)?.requestCount ?? 0
inFlightOf(rs, ip) == IF rateIndex(rs, ip) = 0 THEN 0 ELSE rs[rateIndex(rs, ip)].inFlight
requestCountOf(rs, ip) ==
    IF rateIndex(rs, ip) = 0 THEN 0 ELSE rs[rateIndex(rs, ip)].requestCount

\* the requests holding a slot: admitted, upstream fetch not yet over
Holding == {id \in DOMAIN reqs : reqs[id].pc = "fetching"}

\* C37: a request rejected with 405, 400 or 429 changes no client's inFlight
\* count and increments no requestCount; an admitted request increments the
\* inFlight count of its client by one, and gives that one back when its
\* upstream fetch is over, however it ends; inFlight is never negative.
C37_SlotAccounting ==
    [][/\ (nextReq' # nextReq /\ DOMAIN reqs' = DOMAIN reqs) =>
            \A ip \in ClientIps :
                /\ inFlightOf(rateState', ip) = inFlightOf(rateState, ip)
                /\ requestCountOf(rateState', ip) <= requestCountOf(rateState, ip)
       /\ \A id \in DOMAIN reqs' \ DOMAIN reqs :
            inFlightOf(rateState', reqs'[id].ip)
                = inFlightOf(rateState, reqs'[id].ip) + 1
       /\ \A id \in Holding :
            (id \notin DOMAIN reqs' \/ reqs'[id].pc # "fetching") =>
                inFlightOf(rateState', reqs[id].ip)
                    = inFlightOf(rateState, reqs[id].ip) - 1
       /\ \A i \in 1..Len(rateState') : rateState'[i].inFlight >= 0
      ]_vars

-----------------------------------------------------------------------------
(* The inference worker seen from the pipeline (checked under SpecFlow) *)

\* C33: the worker runs the engine serially: at no time are two
\* session.run calls outstanding, whatever the arrival pattern of process
\* messages.
C33_OneRunAtATime == Cardinality(runs) <= 1

\* C34: an exception thrown by session.run for one frame, after the engine
\* is ready, is not a status transition: the engine's status stays ready.
C34_FrameErrorKeepsReady == [][status = "ready" => status' = "ready"]_vars

-----------------------------------------------------------------------------
(* The disabled processor and repeated enables (checked under Spec) *)

\* a process() callback runs
ProcessRuns == \E n \in 1..MaxBlock : \E in \in InputBlocks(n) : Process(in, MaxFrames)

\* C35: while the processor is disabled, a process() callback leaves the
\* input ring, the output ring, the in-flight counter, nextId and the warmup
\* countdown unchanged and posts no frame message.
C35_DisabledProcessIsInert ==
    [][(~enabled /\ ProcessRuns) =>
            /\ inRing' = inRing
            /\ outRing' = outRing
            /\ inFlight' = inFlight
            /\ nextId' = nextId
            /\ warmupSamplesRemaining' = warmupSamplesRemaining
            /\ workletOut' = workletOut
      ]_vars

\* a disabled processor has passed a nonzero block through while it held
\* buffered input and a frame in flight
C35_BypassedWithBacklog ==
    /\ ~enabled
    /\ call.ch >= 1
    /\ outL = call.l
    /\ \E i \in 1..Len(outL) : outL[i] # 0
    /\ size(inRing) > 0
    /\ inFlight > 0

\* C36: the enable reset happens only on a transition from disabled to
\* enabled: a setEnabled(true) message handled while the processor is
\* already enabled leaves both rings, the in-flight counter and the warmup
\* countdown unchanged.
C36_ReenableIsNoOp ==
    [][(enabled /\ WorkletHandlesEnable) =>
            /\ inRing' = inRing
            /\ outRing' = outRing
            /\ inFlight' = inFlight
            /\ warmupSamplesRemaining' = warmupSamplesRemaining
      ]_vars

-----------------------------------------------------------------------------
(* The engine's status, worker and init() calls (checked under SpecLife and *)
(* SpecLifeFair)                                                            *)

\* C38: whenever the engine's status is ready its audio context and its
\* worklet node exist, so that attach() called in status ready never fails
\* with 'Engine not initialized'.
C38_ReadyIsWired ==
    status = "ready" => (ctx # "null" /\ worklet # "null")

\* a dispose() call returns in this step
DisposeReturns ==
    \/ disposePending' < disposePending
    \/ calls'.dispose > calls.dispose /\ disposePending' = disposePending

\* C39: an engine owns at most one live worker at any time, a repeated
\* init() included, and when a dispose() call returns no worker created by
\* the engine is alive.
C39_OneLiveWorker ==
    [][/\ liveWorkers' <= 1
       /\ DisposeReturns => liveWorkers' = 0
      ]_vars

\* C40: every init() call settles in the end, resolved or rejected, and the
\* status leaves loading-model in the end, for every interleaving with
\* dispose().
C40_InitSettles ==
    /\ (initPc \in {"awaitReady", "awaitModule"}) ~> (initPc \in {"done", "failed"})
    /\ (status = "loading-model") ~> (status # "loading-model")

====
